---------------------------- MODULE Spec2Model ----------------------------
(***************************************************************************)
(* Model of the rcalc expression engine: Lexer::tokenize (src/parser.rs),  *)
(* Evaluator::evaluate / perform_operation / apply_operator                *)
(* (src/evaluator.rs) and cli::calculate (src/cli.rs).                     *)
(*                                                                         *)
(* f64 values are modelled exactly: a finite value is a rational n/d in    *)
(* lowest terms, and the IEEE specials (-0.0, +inf, -inf, NaN) are kept    *)
(* apart.  The literal 9223372036854775808 (2^63) and its negation are     *)
(* kept as the symbolic values "big" / "nbig" so that the `as i64` casts   *)
(* of the Modulo arm can be followed up to the limits of the i64 range.    *)
(* A finite value whose numerator or denominator leaves -MaxMag..MaxMag    *)
(* is "over": outside the range the model follows.                         *)
(*                                                                         *)
(* Custom functions (src/functions.rs) are expanded textually and their    *)
(* nested calls evaluated as frames.  Three specifications share the       *)
(* variables: Spec follows one request through the calculator, SpecReg     *)
(* runs an evaluating thread beside two registering threads on the locked  *)
(* registry, and SpecRun gives lines to the program in each of its run     *)
(* modes (src/main.rs, cli::run) with the history file of                  *)
(* src/history.rs, whose add_entry is a load step and a save step.         *)
(***************************************************************************)
EXTENDS Integers, Sequences, FiniteSets, TLC

(* ------------------------------ bounds -------------------------------- *)
\* largest number of lexemes in an enumerated input line
MaxLen == 4
\* digit lexemes are "0" .. MaxLit
MaxLit == 3
\* largest numerator / denominator of an exactly followed value
MaxMag == 1000

(* ----------------------------- f64 values ----------------------------- *)
Abs(x) == IF x < 0 THEN -x ELSE x

RECURSIVE GCD(_, _)
GCD(a, b) == IF b = 0 THEN a ELSE GCD(b, a % b)

Val(kind, n, d) == [k |-> kind, n |-> n, d |-> d]
Zero    == Val("q", 0, 1)
NegZero == Val("nzero", 0, 1)
PInf    == Val("inf", 0, 1)
NInf    == Val("ninf", 0, 1)
NaN     == Val("nan", 0, 1)
Big     == Val("big", 0, 1)
NBig    == Val("nbig", 0, 1)
Over    == Val("over", 0, 1)
Int2F(n) == Val("q", n, 1)

\* the rational n/d (d # 0, n # 0), reduced; "over" outside the exact range
MkQ(n, d) ==
    LET g  == GCD(Abs(n), Abs(d))
        nn == (IF d < 0 THEN -n ELSE n) \div g
        dd == Abs(d) \div g
    IN  IF Abs(nn) > MaxMag \/ dd > MaxMag THEN Over ELSE Val("q", nn, dd)

IsOver(v)   == v.k = "over"
IsNan(v)    == v.k = "nan"
IsInfK(v)   == v.k \in {"inf", "ninf"}
IsBigK(v)   == v.k \in {"big", "nbig"}
\* v == 0.0 (true of +0.0 and of -0.0)
IsZero(v)   == v.k = "nzero" \/ (v.k = "q" /\ v.n = 0)
\* v < 0.0
IsNeg(v)    == (v.k = "q" /\ v.n < 0) \/ v.k \in {"ninf", "nbig"}
\* v > 0.0
IsPos(v)    == (v.k = "q" /\ v.n > 0) \/ v.k \in {"inf", "big"}
\* the sign bit of v
SignBit(v)  == IsNeg(v) \/ v.k = "nzero"
SignedZero(neg) == IF neg THEN NegZero ELSE Zero
SignedInf(neg)  == IF neg THEN NInf ELSE PInf
\* v.fract() != 0.0 ; fract of an infinity or of NaN is NaN, and NaN != 0.0
HasFract(v) == (v.k = "q" /\ v.d # 1) \/ v.k \in {"inf", "ninf", "nan"}
\* v is an odd integer
IsOddInt(v) == v.k = "q" /\ v.d = 1 /\ v.n % 2 = 1

\* -v
FNeg(v) ==
    CASE v.k = "q"     -> IF v.n = 0 THEN NegZero ELSE Val("q", -v.n, v.d)
      [] v.k = "nzero" -> Zero
      [] v.k = "inf"   -> NInf
      [] v.k = "ninf"  -> PInf
      [] v.k = "big"   -> NBig
      [] v.k = "nbig"  -> Big
      [] OTHER         -> v

\* a + b
FAdd(a, b) ==
    IF IsOver(a) \/ IsOver(b) THEN Over
    ELSE IF IsNan(a) \/ IsNan(b) THEN NaN
    ELSE IF IsInfK(a) /\ IsInfK(b) THEN (IF a.k = b.k THEN a ELSE NaN)
    ELSE IF IsInfK(a) THEN a
    ELSE IF IsInfK(b) THEN b
    ELSE IF IsZero(a) /\ IsZero(b) THEN SignedZero(SignBit(a) /\ SignBit(b))
    ELSE IF IsZero(a) THEN b
    ELSE IF IsZero(b) THEN a
    ELSE IF IsBigK(a) \/ IsBigK(b) THEN Over
    ELSE LET n == a.n * b.d + b.n * a.d
         IN  IF n = 0 THEN Zero ELSE MkQ(n, a.d * b.d)

\* a - b
FSub(a, b) == FAdd(a, FNeg(b))

\* a * b
FMul(a, b) ==
    IF IsOver(a) \/ IsOver(b) THEN Over
    ELSE IF IsNan(a) \/ IsNan(b) THEN NaN
    ELSE IF IsInfK(a) \/ IsInfK(b)
         THEN (IF IsZero(a) \/ IsZero(b) THEN NaN
               ELSE SignedInf(SignBit(a) # SignBit(b)))
    ELSE IF IsZero(a) \/ IsZero(b) THEN SignedZero(SignBit(a) # SignBit(b))
    ELSE IF IsBigK(a) \/ IsBigK(b) THEN Over
    ELSE MkQ(a.n * b.n, a.d * b.d)

\* a / b
FDiv(a, b) ==
    IF IsOver(a) \/ IsOver(b) THEN Over
    ELSE IF IsNan(a) \/ IsNan(b) THEN NaN
    ELSE IF IsInfK(a)
         THEN (IF IsInfK(b) THEN NaN ELSE SignedInf(SignBit(a) # SignBit(b)))
    ELSE IF IsInfK(b) THEN SignedZero(SignBit(a) # SignBit(b))
    ELSE IF IsZero(b)
         THEN (IF IsZero(a) THEN NaN ELSE SignedInf(SignBit(a) # SignBit(b)))
    ELSE IF IsZero(a) THEN SignedZero(SignBit(a) # SignBit(b))
    ELSE IF IsBigK(a) \/ IsBigK(b) THEN Over
    ELSE MkQ(a.n * b.d, a.d * b.n)

\* x^m for naturals, stopping as soon as the product leaves 0..MaxMag
RECURSIVE CapPow(_, _, _)
CapPow(x, m, acc) ==
    IF m = 0 \/ acc > MaxMag THEN acc ELSE CapPow(x, m - 1, acc * x)

\* (n/d)^e for a nonzero rational and an integer e # 0
IntPow(a, e) ==
    LET m  == Abs(e)
        pn == IF Abs(a.n) = 1 THEN 1 ELSE CapPow(Abs(a.n), m, 1)
        pd == IF a.d = 1 THEN 1 ELSE CapPow(a.d, m, 1)
        sg == IF a.n < 0 /\ m % 2 = 1 THEN -1 ELSE 1
    IN  IF pn > MaxMag \/ pd > MaxMag THEN Over
        ELSE IF e > 0 THEN MkQ(sg * pn, pd) ELSE MkQ(sg * pd, pn)

\* the exact square root of a natural, or 0 when there is none
ISqrt(x) ==
    IF \E r \in 1..x : r * r = x THEN CHOOSE r \in 1..x : r * r = x ELSE 0

\* a.powf(b), following C pow() on the special values
FPow(a, b) ==
    IF IsOver(a) \/ IsOver(b) THEN Over
    ELSE IF IsZero(b) THEN Int2F(1)
    ELSE IF a = Int2F(1) THEN Int2F(1)
    ELSE IF IsNan(a) \/ IsNan(b) THEN NaN
    ELSE IF IsBigK(a) \/ IsBigK(b) THEN Over
    ELSE IF IsZero(a)
         THEN (IF IsNeg(b)
               THEN SignedInf(SignBit(a) /\ IsOddInt(b))
               ELSE SignedZero(SignBit(a) /\ IsOddInt(b)))
    ELSE IF IsInfK(b)
         THEN (IF a = Int2F(-1) THEN Int2F(1)
               ELSE IF IsInfK(a) \/ Abs(a.n) > a.d
                    THEN (IF b.k = "inf" THEN PInf ELSE Zero)
                    ELSE (IF b.k = "inf" THEN Zero ELSE PInf))
    ELSE IF IsInfK(a)
         THEN (IF IsNeg(b)
               THEN SignedZero(a.k = "ninf" /\ IsOddInt(b))
               ELSE SignedInf(a.k = "ninf" /\ IsOddInt(b)))
    ELSE IF b.d = 1 THEN IntPow(a, b.n)
    ELSE IF a.n < 0 THEN NaN
    ELSE IF b.d = 2 /\ ISqrt(a.n) # 0 /\ ISqrt(a.d) # 0
         THEN IntPow(Val("q", ISqrt(a.n), ISqrt(a.d)), b.n)
    ELSE Over

(* ------------------------- the i64 remainder -------------------------- *)
\* i64 is 64 bits wide: i64::MIN = -2^63 and i64::MAX = 2^63 - 1
I64Bits == 63

\* an i64: an exactly followed integer, or one of the two limits of the type
I64(n)  == [c |-> "int", n |-> n]
I64Max  == [c |-> "max", n |-> 0]
I64Min  == [c |-> "min", n |-> 0]

\* `v as i64` on an f64: truncating, saturating at the limits, NaN to 0
AsI64(v) ==
    CASE v.k = "q"              -> I64(IF v.n >= 0 THEN v.n \div v.d ELSE -((-v.n) \div v.d))
      [] v.k \in {"big", "inf"}   -> I64Max
      [] v.k \in {"nbig", "ninf"} -> I64Min
      [] OTHER                  -> I64(0)

\* 2^k modulo m
RECURSIVE Pow2Mod(_, _)
Pow2Mod(k, m) == IF k = 0 THEN 1 % m ELSE (2 * Pow2Mod(k - 1, m)) % m

\* remainder of the division truncated toward zero (sign of the dividend)
TruncRem(a, b) == IF a >= 0 THEN a % Abs(b) ELSE -((-a) % Abs(b))

RemPanic == [c |-> "panic", n |-> 0]

\* x % y on i64 with y # 0; MIN % -1 overflows and panics in every build
I64Rem(x, y) ==
    CASE x.c = "int" /\ y.c = "int" -> I64(TruncRem(x.n, y.n))
      [] x.c = "int" /\ y.c # "int" -> x
      [] x.c = "max" /\ y.c = "int" ->
            I64((Pow2Mod(I64Bits, Abs(y.n)) + Abs(y.n) - 1) % Abs(y.n))
      [] x.c = "min" /\ y.c = "int" ->
            IF y.n = -1 THEN RemPanic
            ELSE I64(-Pow2Mod(I64Bits, Abs(y.n)))
      [] x.c = "max" /\ y.c = "max" -> I64(0)
      [] x.c = "min" /\ y.c = "min" -> I64(0)
      [] x.c = "max" /\ y.c = "min" -> I64Max
      [] x.c = "min" /\ y.c = "max" -> I64(-1)

\* `x as f64` on an i64 (i64::MAX rounds to 2^63)
AsF64(x) ==
    CASE x.c = "int" -> Int2F(x.n)
      [] x.c = "max" -> Big
      [] x.c = "min" -> NBig

(* ------------------------------ results ------------------------------- *)
Ok(v)    == [tag |-> "Ok", v |-> v, err |-> ""]
Err(e)   == [tag |-> "Err", v |-> Zero, err |-> e]
\* the thread panicked: no Result is returned
Panic    == [tag |-> "Panic", v |-> Zero, err |-> "attempt to calculate the remainder with overflow"]
\* the thread overflowed its stack: the process is aborted
StackOverflow == [tag |-> "Overflow", v |-> Zero, err |-> "thread has overflowed its stack"]
\* no result yet
NoneRes  == [tag |-> "None", v |-> Zero, err |-> ""]

(* ------------------------------- tokens ------------------------------- *)
\* a token: its kind, the f64 of a Number, the name and the argument tokens
\* of a FunctionCall
Tok(kind)  == [t |-> kind, v |-> Zero, name |-> <<>>, args |-> <<>>]
Number(v)  == [t |-> "Number", v |-> v, name |-> <<>>, args |-> <<>>]
FunctionCall(name, args) ==
    [t |-> "FunctionCall", v |-> Zero, name |-> name, args |-> args]
Add        == Tok("Add")
Subtract   == Tok("Subtract")
Multiply   == Tok("Multiply")
Divide     == Tok("Divide")
LeftParen  == Tok("LeftParen")
RightParen == Tok("RightParen")
UnaryMinus == Tok("UnaryMinus")
Modulo     == Tok("Modulo")
Power      == Tok("Power")

Last(s)  == s[Len(s)]
Front(s) == SubSeq(s, 1, Len(s) - 1)

(* ------------------------------- lexer -------------------------------- *)
Digits == {"0", "1", "2", "3", "4", "5", "6", "7", "8", "9"}
DigitChars == << "0", "1", "2", "3", "4", "5", "6", "7", "8", "9" >>
DigitVal(c) ==
    CASE c = "0" -> 0 [] c = "1" -> 1 [] c = "2" -> 2 [] c = "3" -> 3
      [] c = "4" -> 4 [] c = "5" -> 5 [] c = "6" -> 6 [] c = "7" -> 7
      [] c = "8" -> 8 [] c = "9" -> 9

\* the decimal numeral of 2^63, the magnitude of i64::MIN
I64MinDigits ==
    << "9", "2", "2", "3", "3", "7", "2", "0", "3", "6",
       "8", "5", "4", "7", "7", "5", "8", "0", "8" >>

\* first index at or after i that holds neither a digit nor '.'
RECURSIVE NumEnd(_, _)
NumEnd(input, i) ==
    IF i <= Len(input) /\ input[i] \in Digits \cup {"."}
    THEN NumEnd(input, i + 1) ELSE i

\* value of a digit string, stopping once it leaves 0..MaxMag
RECURSIVE DecVal(_, _, _)
DecVal(ds, i, acc) ==
    IF i > Len(ds) \/ acc > MaxMag THEN acc
    ELSE DecVal(ds, i + 1, acc * 10 + DigitVal(ds[i]))

\* str::parse::<f64> on a run of digits and dots
ParseF64(run) ==
    LET dots  == {i \in 1..Len(run) : run[i] = "."}
        dot   == IF dots = {} THEN Len(run) + 1 ELSE CHOOSE i \in dots : TRUE
        whole == SubSeq(run, 1, dot - 1)
        frac  == SubSeq(run, dot + 1, Len(run))
        n     == DecVal(whole \o frac, 1, 0)
        den   == CapPow(10, Len(frac), 1)
    IN  IF Cardinality(dots) > 1 \/ Len(whole) + Len(frac) = 0
        THEN Err("Invalid number format")
        ELSE IF run = I64MinDigits THEN Ok(Big)
        ELSE IF n > MaxMag \/ den > MaxMag THEN Ok(Over)
        ELSE IF n = 0 THEN Ok(Zero)
        ELSE Ok(MkQ(n, den))

\* Lexer::parse_number: the run starting at i, its value, and where it ends
ParseNumber(input, i) ==
    LET j == NumEnd(input, i)
    IN  [res |-> ParseF64(SubSeq(input, i, j - 1)), next |-> j]

\* IsUnary with UnaryMinus left out of the lookback: a '-' that follows a
\* unary minus is taken for a Subtract
IsUnaryNoRun(tokens) ==
    tokens = <<>>
    \/ Last(tokens).t \in {"Add", "Subtract", "Multiply", "Divide", "LeftParen",
                           "Modulo", "Power"}

\* UnaryLookback with LeftParen left out: a '-' that opens a parenthesized
\* group is taken for a Subtract
UnaryLookbackNoParen ==
    {"Add", "Subtract", "Multiply", "Divide", "UnaryMinus", "Modulo", "Power"}

\* the token kinds after which a '-' is a unary minus
UnaryLookback ==
    {"Add", "Subtract", "Multiply", "Divide", "LeftParen", "UnaryMinus",
     "Modulo", "Power"}

IsUnary(tokens) == tokens = <<>> \/ Last(tokens).t \in UnaryLookback

LexOk(toks) == [ok |-> TRUE, toks |-> toks, err |-> ""]
LexErr(e)   == [ok |-> FALSE, toks |-> <<>>, err |-> e]

\* 'a'..='z' and 'A'..='Z', letter by letter
LowerCase ==
    << "a", "b", "c", "d", "e", "f", "g", "h", "i", "j", "k", "l", "m",
       "n", "o", "p", "q", "r", "s", "t", "u", "v", "w", "x", "y", "z" >>
UpperCase ==
    << "A", "B", "C", "D", "E", "F", "G", "H", "I", "J", "K", "L", "M",
       "N", "O", "P", "Q", "R", "S", "T", "U", "V", "W", "X", "Y", "Z" >>
Range(s) == {s[i] : i \in 1..Len(s)}
\* the characters that start an identifier, and those that continue one
IdentStart == Range(LowerCase) \cup Range(UpperCase) \cup {"_"}
IdentChars == IdentStart \cup Digits

\* str::to_lowercase on an ASCII name
ToLower(name) ==
    [i \in 1..Len(name) |->
        IF name[i] \in Range(UpperCase)
        THEN LowerCase[CHOOSE j \in 1..Len(UpperCase) : UpperCase[j] = name[i]]
        ELSE name[i]]

\* std::f64::consts::PI and E: finite values outside the followed range
ConstPi == Over
ConstE  == Over

\* Lexer::parse_identifier: first index at or after i that holds no
\* identifier character
RECURSIVE IdentEnd(_, _)
IdentEnd(input, i) ==
    IF i <= Len(input) /\ input[i] \in IdentChars
    THEN IdentEnd(input, i + 1) ELSE i

ArgsOk(args, next) == [ok |-> TRUE, args |-> args, next |-> next, err |-> ""]
ArgsErr(e)         == [ok |-> FALSE, args |-> <<>>, next |-> 0, err |-> e]

RECURSIVE LexFrom(_, _, _)
RECURSIVE ParseFunctionArgs(_, _, _, _, _)

\* Lexer::parse_function_args from character i on: the argument tokens so
\* far, the text of the current argument and the depth of its parentheses
ParseFunctionArgs(input, i, args, current_arg, paren_count) ==
    IF i > Len(input) THEN ArgsErr("Unclosed function arguments")
    ELSE LET c == input[i]
             \* the tokens of the current argument, none for the empty text
             lexed == { IF arg = <<>> THEN LexOk(<<>>) ELSE LexFrom(arg, 1, <<>>) :
                          arg \in { current_arg } }
         IN
      CASE c = ")" /\ paren_count = 0 ->
              CHOOSE r \in
                { IF l.ok THEN ArgsOk(args \o l.toks, i + 1) ELSE ArgsErr(l.err) :
                    l \in lexed } : TRUE
        [] c = ")" /\ paren_count # 0 ->
              ParseFunctionArgs(input, i + 1, args, Append(current_arg, c),
                                paren_count - 1)
        [] c = "," /\ paren_count = 0 ->
              CHOOSE r \in
                { IF l.ok
                  THEN ParseFunctionArgs(input, i + 1, args \o l.toks, <<>>, paren_count)
                  ELSE ArgsErr(l.err) : l \in lexed } : TRUE
        [] c = "(" ->
              ParseFunctionArgs(input, i + 1, args, Append(current_arg, c),
                                paren_count + 1)
        [] OTHER ->
              ParseFunctionArgs(input, i + 1, args, Append(current_arg, c),
                                paren_count)

\* the identifier arm of Lexer::tokenize: a constant or a function call
LexIdentifier(input, i, tokens) ==
    LET j    == IdentEnd(input, i)
        name == SubSeq(input, i, j - 1)
        low  == ToLower(name)
    IN  IF low = << "p", "i" >> THEN LexFrom(input, j, Append(tokens, Number(ConstPi)))
        ELSE IF low = << "e" >> THEN LexFrom(input, j, Append(tokens, Number(ConstE)))
        ELSE IF j <= Len(input) /\ input[j] = "("
             THEN CHOOSE l \in
                    { IF a.ok
                      THEN LexFrom(input, a.next,
                                   Append(tokens, FunctionCall(name, a.args)))
                      ELSE LexErr(a.err) :
                        a \in { ParseFunctionArgs(input, j + 1, <<>>, <<>>, 0) } } : TRUE
        ELSE LexErr("Unexpected identifier")

\* the loop of Lexer::tokenize from character i on
LexFrom(input, i, tokens) ==
    IF i > Len(input) THEN LexOk(tokens)
    ELSE LET c == input[i] IN
      CASE c \in {" ", "\t", "\n"} -> LexFrom(input, i + 1, tokens)
        [] c = "+" -> LexFrom(input, i + 1, Append(tokens, Add))
        [] c = "-" -> LexFrom(input, i + 1,
                        Append(tokens, IF IsUnary(tokens) THEN UnaryMinus ELSE Subtract))
        [] c = "*" -> LexFrom(input, i + 1, Append(tokens, Multiply))
        [] c = "/" -> LexFrom(input, i + 1, Append(tokens, Divide))
        [] c = "%" -> LexFrom(input, i + 1, Append(tokens, Modulo))
        [] c = "^" -> LexFrom(input, i + 1, Append(tokens, Power))
        [] c = "(" -> LexFrom(input, i + 1, Append(tokens, LeftParen))
        [] c = ")" -> LexFrom(input, i + 1, Append(tokens, RightParen))
        [] c \in Digits \cup {"."} ->
              CHOOSE l \in
                  { IF p.res.tag = "Ok"
                    THEN LexFrom(input, p.next, Append(tokens, Number(p.res.v)))
                    ELSE LexErr(p.res.err) : p \in { ParseNumber(input, i) } } : TRUE
        [] c \in IdentStart -> LexIdentifier(input, i, tokens)
        [] OTHER -> LexErr("Unexpected character")

\* Lexer::new(input).tokenize()
Tokenize(input) == LexFrom(input, 1, <<>>)

(* ------------------------ the function registry ----------------------- *)
\* CUSTOM_FUNCTIONS: the map from a name to its CustomFunction, and the thread
\* that holds its Mutex
VARIABLES functions, lock

CustomFunction(parameters, expression) ==
    [parameters |-> parameters, expression |-> expression]

\* functions::is_function_defined
IsFunctionDefined(name) == name \in DOMAIN functions

\* CUSTOM_FUNCTIONS.lock() that does not wait for the mutex to be free
AcquireNoWait(t) == lock' = t

\* CUSTOM_FUNCTIONS.lock().unwrap(): the thread goes on once the mutex is
\* free, and holds it
Acquire(t) == lock = "free" /\ lock' = t

\* a guard that is never dropped
KeepLock == lock' = lock

\* the MutexGuard goes out of scope
Release == lock' = "free"

(* --------------------------- the macro expander ----------------------- *)
\* what the regex class \s and str::trim take for white space
WhiteSpace == {" ", "\t", "\n", "\r", "\f"}

RECURSIVE SkipSpace(_, _)
SkipSpace(text, i) ==
    IF i <= Len(text) /\ text[i] \in WhiteSpace THEN SkipSpace(text, i + 1) ELSE i

\* first index at or after i that holds a parenthesis
RECURSIVE NextParen(_, _)
NextParen(text, i) ==
    IF i <= Len(text) /\ text[i] \notin {"(", ")"} THEN NextParen(text, i + 1) ELSE i

\* the regex ([a-zA-Z_][a-zA-Z0-9_]*)\s*\(([^()]*)\) anchored at i: the name,
\* the argument text and the index after the closing parenthesis
MatchCall(text, i) ==
    LET j == IdentEnd(text, i)
        k == SkipSpace(text, j)
        m == NextParen(text, k + 1)
    IN  IF /\ text[i] \in IdentStart
           /\ k <= Len(text) /\ text[k] = "("
           /\ m <= Len(text) /\ text[m] = ")"
        THEN [ok |-> TRUE, name |-> SubSeq(text, i, j - 1),
              args_str |-> SubSeq(text, k + 1, m - 1), next |-> m + 1]
        ELSE [ok |-> FALSE, name |-> <<>>, args_str |-> <<>>, next |-> i]

\* str::trim
RECURSIVE TrimEnd(_)
TrimEnd(text) ==
    IF text # <<>> /\ Last(text) \in WhiteSpace THEN TrimEnd(Front(text)) ELSE text
Trim(text) == TrimEnd(SubSeq(text, SkipSpace(text, 1), Len(text)))

\* str::split(','): the pieces between the commas; one (empty) piece for the
\* empty text
RECURSIVE Split(_, _, _)
Split(text, i, piece) ==
    IF i > Len(text) THEN << piece >>
    ELSE IF text[i] = "," THEN << piece >> \o Split(text, i + 1, <<>>)
    ELSE Split(text, i + 1, Append(piece, text[i]))

\* the regex assertion \b between text[i - 1] and text[i]
IsWordAt(text, i) == i >= 1 /\ i <= Len(text) /\ text[i] \in IdentChars
WordBoundary(text, i) == IsWordAt(text, i - 1) # IsWordAt(text, i)

\* Regex \bparam\b .replace_all(body, "(value)") from index i on
RECURSIVE ReplaceParam(_, _, _, _)
ReplaceParam(body, param, value, i) ==
    LET n    == Len(param)
        here == /\ i + n - 1 <= Len(body)
                /\ SubSeq(body, i, i + n - 1) = param
                /\ WordBoundary(body, i) /\ WordBoundary(body, i + n)
        one  == IF i <= Len(body) THEN << body[i] >> ELSE <<>>
    IN  IF i > Len(body) + 1 THEN <<>>
        ELSE IF here /\ n > 0
             THEN << "(" >> \o value \o << ")" >> \o ReplaceParam(body, param, value, i + n)
        ELSE IF here
             THEN << "(" >> \o value \o << ")" >> \o one
                     \o ReplaceParam(body, param, value, i + 1)
        ELSE one \o ReplaceParam(body, param, value, i + 1)

\* the loop over func.parameters.iter().zip(args.iter()), one parameter after
\* the other on the body as it stands
RECURSIVE Substitute(_, _, _, _)
Substitute(body, parameters, args, p) ==
    IF p > Len(parameters) THEN body
    ELSE CHOOSE out \in
           { Substitute(replaced, parameters, args, p + 1) :
               replaced \in { ReplaceParam(body, parameters[p], args[p], 1) } } : TRUE

\* the text put in place of a call whose argument count is wrong
MismatchText ==
    << "T", "h", "e", " ", "n", "u", "m", "b", "e", "r", " ", "o", "f", " ",
    "f", "u", "n", "c", "t", "i", "o", "n", " ", "p", "a", "r", "a", "m",
    "e", "t", "e", "r", "s", " ", "i", "s", " ", "i", "n", "c", "o", "r",
    "r", "e", "c", "t" >>

\* the closure of replace_all on one match of a registered name
ExpandCall(func, args_str) ==
    CHOOSE out \in
      { LET args == [p \in 1..Len(pieces) |-> Trim(pieces[p])]
        IN  IF Len(args) # Len(func.parameters) THEN MismatchText
            ELSE << "(" >> \o Substitute(func.expression, func.parameters, args, 1)
                     \o << ")" >> :
          pieces \in { Split(args_str, 1, <<>>) } } : TRUE

\* one replace_all over the text, with the map as locked for this pass
RECURSIVE ExpandPass(_, _, _)
ExpandPass(map, text, i) ==
    IF i > Len(text) THEN <<>>
    ELSE CHOOSE out \in
           { IF ~c.ok THEN << text[i] >> \o ExpandPass(map, text, i + 1)
             ELSE (IF c.name \in DOMAIN map
                   THEN ExpandCall(map[c.name], c.args_str)
                   ELSE SubSeq(text, i, c.next - 1))
                  \o ExpandPass(map, text, c.next) :
               c \in { MatchCall(text, i) } } : TRUE

\* str::contains
Contains(text, part) ==
    \E i \in 1..(Len(text) - Len(part) + 1) : SubSeq(text, i, i + Len(part) - 1) = part

\* the passes of the loop `for _ in 0..20`
ExpandPasses == 20

ExpandOk(text) == [ok |-> TRUE, text |-> text, err |-> ""]
ExpandErr(e)   == [ok |-> FALSE, text |-> <<>>, err |-> e]

\* the check made on the text after the loop
ExpandEnd(text) ==
    IF Contains(text, MismatchText)
    THEN ExpandErr("Custom function argument count mismatch")
    ELSE ExpandOk(text)

\* the loop of expand_custom_functions with n passes left
RECURSIVE ExpandLoop(_, _)
ExpandLoop(text, n) ==
    IF n = 0 THEN text
    ELSE CHOOSE result \in
            { IF temp = text THEN text ELSE ExpandLoop(temp, n - 1) :
                temp \in { ExpandPass(functions, text, 1) } } : TRUE

\* functions::expand_custom_functions
ExpandCustomFunctions(expr) == ExpandEnd(ExpandLoop(expr, ExpandPasses))

(* ----------------------------- evaluator ------------------------------ *)
\* apply_operator with the zero test of the Divide arm left out
ApplyOperatorNoZeroTest(op, a, b) ==
    CASE op.t = "Add"      -> Ok(FAdd(a, b))
      [] op.t = "Subtract" -> Ok(FSub(a, b))
      [] op.t = "Multiply" -> Ok(FMul(a, b))
      [] op.t = "Divide"   -> Ok(FDiv(a, b))
      [] op.t = "Modulo"   ->
            IF IsOver(a) \/ IsOver(b) THEN Ok(Over)
            ELSE IF HasFract(a) \/ HasFract(b)
                 THEN Err("Modulo operation requires integer operands")
            ELSE IF IsZero(b) THEN Err("Modulo by zero")
            ELSE LET r == I64Rem(AsI64(a), AsI64(b))
                 IN  IF r.c = "panic" THEN Panic ELSE Ok(AsF64(r))
      [] op.t = "Power"    ->
            IF IsOver(a) \/ IsOver(b) THEN Ok(Over)
            ELSE IF IsZero(a) /\ IsZero(b) THEN Err("Undefined operation: 0^0")
            ELSE IF IsNeg(a) /\ HasFract(b)
                 THEN Err("Negative base with fractional exponent is undefined")
            ELSE LET result == FPow(a, b)
                 IN  IF IsNan(result) THEN Err("Invalid operation") ELSE Ok(result)
      [] OTHER             -> Err("Unexpected operator")

\* Evaluator::apply_operator
ApplyOperator(op, a, b) ==
    CASE op.t = "Add"      -> Ok(FAdd(a, b))
      [] op.t = "Subtract" -> Ok(FSub(a, b))
      [] op.t = "Multiply" -> Ok(FMul(a, b))
      [] op.t = "Divide"   ->
            IF IsOver(b) THEN Ok(Over)
            ELSE IF IsZero(b) THEN Err("Division by zero")
            ELSE Ok(FDiv(a, b))
      [] op.t = "Modulo"   ->
            IF IsOver(a) \/ IsOver(b) THEN Ok(Over)
            ELSE IF HasFract(a) \/ HasFract(b)
                 THEN Err("Modulo operation requires integer operands")
            ELSE IF IsZero(b) THEN Err("Modulo by zero")
            ELSE LET r == I64Rem(AsI64(a), AsI64(b))
                 IN  IF r.c = "panic" THEN Panic ELSE Ok(AsF64(r))
      [] op.t = "Power"    ->
            IF IsOver(a) \/ IsOver(b) THEN Ok(Over)
            ELSE IF IsZero(a) /\ IsZero(b) THEN Err("Undefined operation: 0^0")
            ELSE IF IsNeg(a) /\ HasFract(b)
                 THEN Err("Negative base with fractional exponent is undefined")
            ELSE LET result == FPow(a, b)
                 IN  IF IsNan(result) THEN Err("Invalid operation") ELSE Ok(result)
      [] OTHER             -> Err("Unexpected operator")

\* the working state of one evaluate call: the two stacks, the outcome once
\* one is fixed, and a log of every operator application made so far
EvalState(values, ops, applied, res) ==
    [values |-> values, ops |-> ops, applied |-> applied, res |-> res]

Fail(E, ops, r) == EvalState(E.values, ops, E.applied, r)

\* the log entry of one application
Applied(op, a, b, r) == [op |-> op.t, a |-> a, b |-> b, r |-> r]

\* pop UnaryMinus: negate the top value
NegateTop(E, op, ops) ==
    IF E.values = <<>>
    THEN Fail(E, ops, Err("Missing operand for unary minus"))
    ELSE LET value == Last(E.values)
         IN  EvalState(Append(Front(E.values), FNeg(value)), ops,
                       Append(E.applied, Applied(op, value, Zero, Ok(FNeg(value)))),
                       E.res)

\* pop a binary operator: apply it to the two top values
ApplyTop(E, op, ops) ==
    IF Len(E.values) < 2
    THEN Fail(E, ops, Err("Missing operand"))
    ELSE LET b   == E.values[Len(E.values)]
             a   == E.values[Len(E.values) - 1]
             r   == ApplyOperator(op, a, b)
             log == Append(E.applied, Applied(op, a, b, r))
             rest == SubSeq(E.values, 1, Len(E.values) - 2)
         IN  IF r.tag = "Ok"
             THEN EvalState(Append(rest, r.v), ops, log, E.res)
             ELSE EvalState(rest, ops, log, r)

\* Evaluator::perform_operation
PerformOperation(E) ==
    IF E.ops = <<>> THEN Fail(E, E.ops, Err("Missing operator"))
    ELSE LET op == Last(E.ops) IN
         IF op = UnaryMinus THEN NegateTop(E, op, Front(E.ops))
         ELSE ApplyTop(E, op, Front(E.ops))

\* `while let Some(op) = ops.last()`: perform while the top is of a kind in S
RECURSIVE ReduceWhile(_, _)
ReduceWhile(E, S) ==
    IF E.res.tag = "None" /\ E.ops # <<>> /\ Last(E.ops).t \in S
    THEN ReduceWhile(PerformOperation(E), S)
    ELSE E

Push(E, token) == EvalState(E.values, Append(E.ops, token), E.applied, E.res)

\* Token::Number(n) => values.push(*n)
OnNumber(E, token) == EvalState(Append(E.values, token.v), E.ops, E.applied, E.res)

\* Token::LeftParen => ops.push
OnLeftParen(E, token) == Push(E, token)

\* what the RightParen arm reduces: everything down to a LeftParen
UntilLeftParen ==
    {"Add", "Subtract", "Multiply", "Divide", "RightParen", "UnaryMinus",
     "Modulo", "Power"}

\* the RightParen arm with `if` for `while`: at most one operator is reduced
\* before the pop
OnRightParenOnce(E, token) ==
    LET E1 == IF E.ops # <<>> /\ Last(E.ops).t \in UntilLeftParen
              THEN PerformOperation(E) ELSE E
    IN
    IF E1.res.tag # "None" THEN E1
    ELSE IF E1.ops = <<>> THEN Fail(E1, E1.ops, Err("Mismatched parentheses"))
    ELSE LET E2 == EvalState(E1.values, Front(E1.ops), E1.applied, E1.res)
         IN  IF E2.ops # <<>> /\ Last(E2.ops) = UnaryMinus
             THEN PerformOperation(E2)
             ELSE E2

\* the RightParen arm without its last `if let`: a UnaryMinus beneath the
\* LeftParen is left on the stack
OnRightParenLazy(E, token) ==
    LET E1 == ReduceWhile(E, UntilLeftParen)
    IN
    IF E1.res.tag # "None" THEN E1
    ELSE IF E1.ops = <<>> THEN Fail(E1, E1.ops, Err("Mismatched parentheses"))
    ELSE EvalState(E1.values, Front(E1.ops), E1.applied, E1.res)

\* Token::RightParen
OnRightParen(E, token) ==
    CHOOSE R \in
      { IF E1.res.tag # "None" THEN E1
        ELSE IF E1.ops = <<>> THEN Fail(E1, E1.ops, Err("Mismatched parentheses"))
        ELSE CHOOSE R2 \in
               { IF E2.ops # <<>> /\ Last(E2.ops) = UnaryMinus
                 THEN PerformOperation(E2)
                 ELSE E2 :
                   E2 \in { EvalState(E1.values, Front(E1.ops), E1.applied, E1.res) } } :
               TRUE :
          E1 \in { ReduceWhile(E, UntilLeftParen) } } : TRUE

\* Token::UnaryMinus => ops.push
OnUnaryMinus(E, token) == Push(E, token)

\* AddSubPops with UnaryMinus left out of the matches! list
AddSubPopsNoUnary ==
    {"Multiply", "Divide", "Modulo", "Power", "Add", "Subtract"}

\* the kinds an incoming Add / Subtract reduces first
AddSubPops ==
    {"UnaryMinus", "Multiply", "Divide", "Modulo", "Power", "Add", "Subtract"}

\* Token::Add | Token::Subtract
OnAddSub(E, token) ==
    LET E1 == ReduceWhile(E, AddSubPops)
    IN  IF E1.res.tag # "None" THEN E1 ELSE Push(E1, token)

\* the kinds an incoming Multiply / Divide / Modulo reduces first
MulDivModPops == {"Multiply", "Divide", "Modulo", "Power"}

\* Token::Multiply | Token::Divide | Token::Modulo
OnMulDivMod(E, token) ==
    LET E1 == ReduceWhile(E, MulDivModPops)
    IN  IF E1.res.tag # "None" THEN E1 ELSE Push(E1, token)

\* the Power arm reducing a pending Power first, as the Multiply arm does
OnPowerReducing(E, token) ==
    LET E1 == ReduceWhile(E, {"Power"})
    IN  IF E1.res.tag # "None" THEN E1 ELSE Push(E1, token)

\* Token::Power => ops.push
OnPower(E, token) == Push(E, token)

(* ------------------------- built-in functions ------------------------- *)
\* |v| > 1.0
AboveOne(v) == (v.k = "q" /\ Abs(v.n) > v.d) \/ IsInfK(v) \/ IsBigK(v)

\* the libm functions on the values the model follows; a result that is not
\* a followed value is "over"
FSin(v)  == IF IsZero(v) THEN v ELSE IF IsNan(v) \/ IsInfK(v) THEN NaN ELSE Over
FCos(v)  == IF IsZero(v) THEN Int2F(1) ELSE IF IsNan(v) \/ IsInfK(v) THEN NaN ELSE Over
FTan(v)  == IF IsZero(v) THEN v ELSE IF IsNan(v) \/ IsInfK(v) THEN NaN ELSE Over
FLn(v)   == IF v = Int2F(1) THEN Zero ELSE IF IsNan(v) THEN NaN
            ELSE IF v.k = "inf" THEN PInf ELSE Over
FExp(v)  == IF IsZero(v) THEN Int2F(1) ELSE IF IsNan(v) THEN NaN
            ELSE IF v.k = "inf" THEN PInf ELSE IF v.k = "ninf" THEN Zero ELSE Over
FAsin(v) == IF IsZero(v) THEN v ELSE IF IsNan(v) \/ AboveOne(v) THEN NaN ELSE Over
FAcos(v) == IF v = Int2F(1) THEN Zero ELSE IF IsNan(v) \/ AboveOne(v) THEN NaN ELSE Over
FAtan(v) == IF IsZero(v) THEN v ELSE IF IsNan(v) THEN NaN ELSE Over

\* Evaluator::zero_if_tiny: no followed value but zero is below 1e-8
ZeroIfTiny(v) == IF IsZero(v) THEN Zero ELSE v

\* the "log" arm
Log(v) ==
    IF IsOver(v) THEN Ok(Over)
    ELSE IF IsZero(v) \/ IsNeg(v) THEN Err("log() argument must be positive")
    ELSE Ok(ZeroIfTiny(FLn(v)))

\* the largest n whose factorial fits u128: 34! < 2^128 < 35!
MaxFact == 34

\* lo * (lo + 1) * ... * hi, stopping once the product leaves 0..MaxMag
RECURSIVE CapProduct(_, _, _)
CapProduct(lo, hi, acc) ==
    IF lo > hi \/ acc > MaxMag THEN acc ELSE CapProduct(lo + 1, hi, acc * lo)

CapF(n) == IF n > MaxMag THEN Over ELSE Int2F(n)

\* the "fact" | "factorial" arm
Fact(v) ==
    IF IsOver(v) THEN Ok(Over)
    ELSE IF IsNeg(v) \/ HasFract(v) THEN Err("fact() expects a non-negative integer")
    ELSE IF IsBigK(v) \/ v.n > MaxFact THEN Err("fact() overflow")
    ELSE Ok(CapF(CapProduct(1, v.n, 1)))

\* the loop of the "comb" arm: res = res * (n - i) / (i + 1) for i in 0..k
RECURSIVE CombLoop(_, _, _, _)
CombLoop(n, k, i, res) ==
    IF i >= k \/ res > MaxMag THEN res
    ELSE CombLoop(n, k, i + 1, (res * (n - i)) \div (i + 1))

\* the "comb" arm
Comb(n, k) ==
    IF IsOver(n) \/ IsOver(k) THEN Ok(Over)
    ELSE IF IsNeg(n) \/ IsNeg(k) \/ HasFract(n) \/ HasFract(k)
         THEN Err("comb(n, k) expects 0 <= k <= n, both integers")
    ELSE IF IsBigK(n) \/ IsBigK(k) THEN Ok(Over)
    ELSE IF k.n > n.n THEN Err("comb(n, k) expects 0 <= k <= n, both integers")
    ELSE Ok(CapF(CombLoop(n.n, k.n, 0, 1)))

\* the "perm" arm: res = res * (n - i) for i in 0..k
Perm(n, k) ==
    IF IsOver(n) \/ IsOver(k) THEN Ok(Over)
    ELSE IF IsNeg(n) \/ IsNeg(k) \/ HasFract(n) \/ HasFract(k)
         THEN Err("perm(n, k) expects 0 <= k <= n, both integers")
    ELSE IF IsBigK(n) \/ IsBigK(k) THEN Ok(Over)
    ELSE IF k.n > n.n THEN Err("perm(n, k) expects 0 <= k <= n, both integers")
    ELSE Ok(CapF(CapProduct(n.n - k.n + 1, n.n, 1)))

\* the match on name.to_lowercase() of evaluate_function_call; no result for
\* a name that is not built in
Builtin(name, args) ==
    LET low == ToLower(name) IN
    CASE low = << "s", "i", "n" >> ->
            IF Len(args) # 1 THEN Err("sin() expects 1 argument")
            ELSE IF args[1].t # "Number" THEN Err("sin() expects a number")
            ELSE Ok(ZeroIfTiny(FSin(args[1].v)))
      [] low = << "c", "o", "s" >> ->
            IF Len(args) # 1 THEN Err("cos() expects 1 argument")
            ELSE IF args[1].t # "Number" THEN Err("cos() expects a number")
            ELSE Ok(ZeroIfTiny(FCos(args[1].v)))
      [] low = << "t", "a", "n" >> ->
            IF Len(args) # 1 THEN Err("tan() expects 1 argument")
            ELSE IF args[1].t # "Number" THEN Err("tan() expects a number")
            ELSE Ok(ZeroIfTiny(FTan(args[1].v)))
      [] low = << "l", "o", "g" >> ->
            IF Len(args) # 1 THEN Err("log() expects 1 argument")
            ELSE IF args[1].t # "Number" THEN Err("log() expects a number")
            ELSE Log(args[1].v)
      [] low = << "e", "x", "p" >> ->
            IF Len(args) # 1 THEN Err("exp() expects 1 argument")
            ELSE IF args[1].t # "Number" THEN Err("exp() expects a number")
            ELSE Ok(ZeroIfTiny(FExp(args[1].v)))
      [] low = << "a", "r", "c", "s", "i", "n" >> ->
            IF Len(args) # 1 THEN Err("asin() expects 1 argument")
            ELSE IF args[1].t # "Number" THEN Err("asin() expects a number")
            ELSE Ok(ZeroIfTiny(FAsin(args[1].v)))
      [] low = << "a", "r", "c", "c", "o", "s" >> ->
            IF Len(args) # 1 THEN Err("acos() expects 1 argument")
            ELSE IF args[1].t # "Number" THEN Err("acos() expects a number")
            ELSE Ok(ZeroIfTiny(FAcos(args[1].v)))
      [] low = << "a", "r", "c", "t", "a", "n" >> ->
            IF Len(args) # 1 THEN Err("atan() expects 1 argument")
            ELSE IF args[1].t # "Number" THEN Err("atan() expects a number")
            ELSE Ok(ZeroIfTiny(FAtan(args[1].v)))
      [] low \in {<< "f", "a", "c", "t" >>, << "f", "a", "c", "t", "o", "r", "i", "a", "l" >>} ->
            IF Len(args) # 1 THEN Err("fact() expects 1 argument")
            ELSE IF args[1].t # "Number" THEN Err("fact() expects a number")
            ELSE Fact(args[1].v)
      [] low = << "c", "o", "m", "b" >> ->
            IF Len(args) # 2 THEN Err("comb() expects 2 arguments")
            ELSE IF args[1].t # "Number" \/ args[2].t # "Number"
                 THEN Err("comb() expects two numbers")
            ELSE Comb(args[1].v, args[2].v)
      [] low = << "p", "e", "r", "m" >> ->
            IF Len(args) # 2 THEN Err("perm() expects 2 arguments")
            ELSE IF args[1].t # "Number" \/ args[2].t # "Number"
                 THEN Err("perm() expects two numbers")
            ELSE Perm(args[1].v, args[2].v)
      [] OTHER -> NoneRes

(* ----------------------- custom function calls ------------------------ *)
\* the decimal digits of a natural
RECURSIVE NatDigits(_)
NatDigits(n) ==
    IF n < 10 THEN << DigitChars[n + 1] >>
    ELSE Append(NatDigits(n \div 10), DigitChars[(n % 10) + 1])

\* the longest fraction f64::to_string prints
MaxFracDigits == 17

\* the digits of r/d < 1 after the decimal point
RECURSIVE FracDigits(_, _, _)
FracDigits(r, d, left) ==
    IF r = 0 \/ left = 0 THEN <<>>
    ELSE << DigitChars[((r * 10) \div d) + 1] >> \o FracDigits((r * 10) % d, d, left - 1)

\* f64::to_string; a value outside the followed range prints as a numeral
\* outside the followed range
FormatF64(v) ==
    CASE v.k = "q" ->
            (IF v.n < 0 THEN << "-" >> ELSE <<>>)
               \o NatDigits(Abs(v.n) \div v.d)
               \o (IF v.d = 1 THEN <<>>
                   ELSE << "." >> \o FracDigits(Abs(v.n) % v.d, v.d, MaxFracDigits))
      [] v.k = "nzero" -> << "-", "0" >>
      [] v.k = "inf"   -> << "i", "n", "f" >>
      [] v.k = "ninf"  -> << "-", "i", "n", "f" >>
      [] v.k = "nan"   -> << "N", "a", "N" >>
      [] v.k = "big"   -> I64MinDigits
      [] v.k = "nbig"  -> << "-" >> \o I64MinDigits
      [] v.k = "over"  -> I64MinDigits \o << "0" >>

\* arg_strs.join(",")
RECURSIVE JoinArgs(_, _)
JoinArgs(args, i) ==
    IF i > Len(args) THEN <<>>
    ELSE (IF i > 1 THEN << "," >> ELSE <<>>) \o FormatF64(args[i].v) \o JoinArgs(args, i + 1)

\* format!("{}({})", name, arg_strs.join(","))
CallText(name, args) == name \o << "(" >> \o JoinArgs(args, 1) \o << ")" >>

\* evaluate_function_call up to its call of calculate_with_custom: the value
\* or the failure of a call that ends before it, no result for one that
\* goes on to it
CallCheck(name, args) ==
    LET b == Builtin(name, args) IN
    IF b.tag # "None" THEN b
    ELSE IF ~IsFunctionDefined(name) THEN Err("Function is not defined")
    ELSE IF \E i \in 1..Len(args) : args[i].t # "Number"
         THEN Err("Function arguments must be numbers")
    ELSE NoneRes

RECURSIVE EvaluateFunctionCall(_, _, _)

\* Token::FunctionCall: push the value of the call; stack holds the texts of
\* the calculate_with_custom calls the thread is inside of
OnFunctionCall(E, token, stack) ==
    LET r == EvaluateFunctionCall(token.name, token.args, stack)
    IN  IF r.tag = "Ok"
        THEN EvalState(Append(E.values, r.v), E.ops, E.applied, E.res)
        ELSE Fail(E, E.ops, r)

\* the match on one token of the scan
OnToken(E, token, stack) ==
    CASE token.t = "Number"     -> OnNumber(E, token)
      [] token.t = "LeftParen"  -> OnLeftParen(E, token)
      [] token.t = "RightParen" -> OnRightParen(E, token)
      [] token.t = "UnaryMinus" -> OnUnaryMinus(E, token)
      [] token.t \in {"Add", "Subtract"} -> OnAddSub(E, token)
      [] token.t \in {"Multiply", "Divide", "Modulo"} -> OnMulDivMod(E, token)
      [] token.t = "Power"      -> OnPower(E, token)
      [] token.t = "FunctionCall" -> OnFunctionCall(E, token, stack)

\* the final loop with an arm that drops a LeftParen it pops
DrainStepDropsParen(E) ==
    LET op == Last(E.ops) IN
    IF op = UnaryMinus THEN NegateTop(E, op, Front(E.ops))
    ELSE IF op = LeftParen THEN EvalState(E.values, Front(E.ops), E.applied, E.res)
    ELSE ApplyTop(E, op, Front(E.ops))

\* one turn of the final `while let Some(op) = ops.pop()`
DrainStep(E) ==
    LET op == Last(E.ops) IN
    IF op = UnaryMinus THEN NegateTop(E, op, Front(E.ops))
    ELSE ApplyTop(E, op, Front(E.ops))

\* the final match on values.len()
FinalCheck(E) ==
    CASE Len(E.values) = 1 -> Ok(E.values[1])
      [] Len(E.values) = 0 -> Err("No result produced")
      [] OTHER             -> Err("Too many values in the stack")

EvalInit == EvalState(<<>>, <<>>, <<>>, NoneRes)

RECURSIVE ScanFrom(_, _, _, _)
ScanFrom(E, tokens, i, stack) ==
    IF E.res.tag # "None" \/ i > Len(tokens) THEN E
    ELSE ScanFrom(OnToken(E, tokens[i], stack), tokens, i + 1, stack)

RECURSIVE DrainAll(_)
DrainAll(E) ==
    IF E.res.tag # "None" \/ E.ops = <<>> THEN E ELSE DrainAll(DrainStep(E))

\* Evaluator::evaluate as a function of the token sequence, on a thread that
\* is inside the calls of stack
EvaluateOn(tokens, stack) ==
    IF tokens = <<>> THEN Err("Empty expression")
    ELSE LET E == DrainAll(ScanFrom(EvalInit, tokens, 1, stack))
         IN  IF E.res.tag # "None" THEN E.res ELSE FinalCheck(E)

\* functions::calculate_with_custom inside the calls of stack.  The registry
\* and the text fix the outcome of a call, so a call made with the text of a
\* call it is nested in recurses without end: the stack overflows.
CalculateWithCustomOn(expr, stack) ==
    IF expr \in stack THEN StackOverflow
    ELSE CHOOSE result \in
            { IF ~expanded.ok THEN Err(expanded.err)
              ELSE LET l == Tokenize(expanded.text)
                   IN  IF l.ok THEN EvaluateOn(l.toks, stack \cup {expr}) ELSE Err(l.err) :
                expanded \in { ExpandCustomFunctions(expr) } } : TRUE

\* Evaluator::evaluate_function_call
EvaluateFunctionCall(name, args, stack) ==
    LET c == CallCheck(name, args) IN
    IF c.tag # "None" THEN c
    ELSE CalculateWithCustomOn(CallText(name, args), stack)

\* evaluator::evaluate called from outside any custom-function call
Evaluate(tokens) == EvaluateOn(tokens, {})

\* functions::calculate_with_custom
CalculateWithCustom(expr) == CalculateWithCustomOn(expr, {})

\* cli::calculate: tokenize, then evaluate
Calculate(input) ==
    LET l == Tokenize(input)
    IN  IF l.ok THEN Evaluate(l.toks) ELSE Err(l.err)

(* ------------------------------ inputs -------------------------------- *)
\* An input line is a sequence of characters.  The enumerated lines are built
\* from lexemes: every line of at most MaxLen lexemes over GenLexemes, and the
\* longer lines of three shapes (operator chains, pairs, runs of minus signs).
Lit(n) == << DigitChars[n + 1] >>

BinOpChars == {"+", "-", "*", "/", "%", "^"}
GenChars   == {"0", "1", "2", "+", "-", "*", "/", "^", "(", ")"}

RECURSIVE Flatten(_)
Flatten(ls) == IF ls = <<>> THEN <<>> ELSE ls[1] \o Flatten(SubSeq(ls, 2, Len(ls)))

GenInputs == UNION {[1..n -> GenChars] : n \in 0..MaxLen}

Lits     == {Lit(n) : n \in 0..MaxLit}
\* the literals of the pair shape: also 2^63 and a fraction
WideLits == Lits \cup {I64MinDigits, << ".", "5" >>}

Minus(u)   == << "-" >> \o u
Paren(u)   == << "(" >> \o u \o << ")" >>
Signed(ls) == ls \cup {Minus(l) : l \in ls} \cup {Paren(Minus(l)) : l \in ls}

\* u1 op1 u2 op2 u3
ChainInputs ==
    { u1 \o << o1 >> \o u2 \o << o2 >> \o u3 :
        u1 \in Signed(Lits), o1 \in BinOpChars,
        u2 \in Lits \cup {Minus(l) : l \in Lits}, o2 \in BinOpChars, u3 \in Lits }

\* u1 op u2
PairInputs ==
    { u1 \o << o >> \o u2 :
        u1 \in Signed(WideLits), o \in BinOpChars, u2 \in Signed(WideLits) }

\* longest run of minus signs in front of an operand
MaxNeg == 3

RECURSIVE Minuses(_)
Minuses(n) == IF n = 0 THEN <<>> ELSE << "-" >> \o Minuses(n - 1)

Groups == Lits \cup {Paren(l) : l \in Lits} \cup {Paren(Minus(l)) : l \in Lits}
              \cup {Paren(l \o << "+" >> \o l) : l \in Lits}

\* [a op] -...- x
NegInputs ==
    { pre \o Minuses(n) \o x :
        pre \in {<<>>} \cup {a \o << o >> : a \in Lits, o \in BinOpChars},
        n \in 0..MaxNeg, x \in Groups }

\* u1 op u2 with a parenthesis that is not closed or not opened
OpenInputs ==
    LET pairs == { u1 \o << o >> \o u2 :
                     u1 \in {Lit(2), Paren(Minus(I64MinDigits))}, o \in BinOpChars,
                     u2 \in {Lit(3), Minus(Lit(1))} }
    IN  {<< "(" >> \o p : p \in pairs} \cup {p \o << ")" >> : p \in pairs}
           \cup {<< "(" >> \o Paren(p) : p \in pairs}

Inputs == GenInputs \cup ChainInputs \cup PairInputs \cup NegInputs \cup OpenInputs

\* the registry of the enumerated requests: a one-parameter function, a call
\* of it that passes the caller's parameter on, a function without
\* parameters, a two-parameter function, a function that calls itself and
\* two that call each other
Name(c) == << c >>
Define(name, parameters, expression) ==
    Name(name) :> CustomFunction([i \in 1..Len(parameters) |-> Name(parameters[i])],
                                 expression)
NoFunctions == << >>
SampleFunctions ==
    Define("f", << "x" >>, << "x", "*", "2" >>)
    @@ Define("g", << "y" >>, << "f", "(", "y", ")", "+", "1" >>)
    @@ Define("h", << >>, << "3" >>)
    @@ Define("p", << "x", "y" >>, << "x", "-", "y" >>)
    @@ Define("r", << "x" >>, << "r", "(", "1", ")" >>)
    @@ Define("m", << "x" >>, << "n", "(", "1", ")" >>)
    @@ Define("n", << "x" >>, << "m", "(", "1", ")" >>)

\* the argument texts of the enumerated calls of f and g: literals, a sum, a
\* negated and a parenthesized literal
ArgTexts ==
    Lits \cup { << "1", "+", "2" >>, << "-", "3" >>, << "(", "1", ")" >>,
                << "0", ".", "5" >>, << " ", "2", " " >> }
CallOf(name, arg) == Name(name) \o << "(" >> \o arg \o << ")" >>
ArgCalls == { CallOf(name, arg) : name \in {"f", "g"}, arg \in ArgTexts }

\* lines with identifiers, function calls and white space
CallInputs ==
    { << "f", "(", "3", ")" >>,
      << "f", "(", "1", "+", "2", ")" >>,
      << "f", "(", "(", "1", ")", ")" >>,
      << "f", "(", "-", "3", ")" >>,
      << "f", "(", " ", "2", " ", ")" >>,
      << "g", "(", "3", ")" >>,
      << "h", "(", ")" >>,
      << "r", "(", "2", ")" >>,
      << "r", "(", "1", ")" >>,
      << "m", "(", "1", ")" >>,
      << "f", "(", "1", ",", "2", ")" >>,
      << "f", "(", ")" >>,
      << "p", "(", "2", ",", "3", ")" >>,
      << "p", "(", "2", ")" >>,
      << "q", "(", "1", ")" >>,
      << "f", "(", "2", ")", "+", "1" >>,
      << "1", "+", "f", "(", "2", ")" >>,
      << "-", "f", "(", "2", ")" >>,
      << "2", "*", "f", "(", "3", ")", "^", "2" >>,
      << "f", "(", "f", "(", "1", ")", ")" >>,
      << "f", "(", "0", ".", "5", ")" >>,
      << "f", "(", "3" >>,
      << "s", "i", "n", "(", "0", ")" >>,
      << "c", "o", "s", "(", "0", ")" >>,
      << "t", "a", "n", "(", "0", ")" >>,
      << "l", "o", "g", "(", "1", ")" >>,
      << "l", "o", "g", "(", "0", ")" >>,
      << "e", "x", "p", "(", "0", ")" >>,
      << "a", "r", "c", "s", "i", "n", "(", "0", ")" >>,
      << "a", "r", "c", "s", "i", "n", "(", "2", ")" >>,
      << "a", "r", "c", "c", "o", "s", "(", "1", ")" >>,
      << "a", "r", "c", "c", "o", "s", "(", "2", ")" >>,
      << "a", "r", "c", "t", "a", "n", "(", "0", ")" >>,
      << "a", "r", "c", "t", "a", "n", "(", "1", ")" >>,
      << "S", "I", "N", "(", "0", ")" >>,
      << "s", "i", "n", "(", "1", "+", "2", ")" >>,
      << "s", "i", "n", "(", ")" >>,
      << "f", "a", "c", "t", "(", "3", ")" >>,
      << "f", "a", "c", "t", "o", "r", "i", "a", "l", "(", "0", ")" >>,
      << "f", "a", "c", "t", "(", "3", "5", ")" >>,
      << "f", "a", "c", "t", "(", "0", ".", "5", ")" >>,
      << "c", "o", "m", "b", "(", "3", ",", "2", ")" >>,
      << "c", "o", "m", "b", "(", "2", ",", "3", ")" >>,
      << "p", "e", "r", "m", "(", "3", ",", "2", ")" >>,
      << "c", "o", "m", "b", "(", "3", ")" >>,
      << "p", "i" >>,
      << "e" >>,
      << "2", "*", "p", "i" >>,
      << "x" >>,
      << "1", " ", "2" >>,
      << "2", " ", "p", "i" >>,
      << "f", "(", "1", ")", " ", "2" >>,
      << "1", " ", "-", " ", "2" >>,
      << "1", " ", "-", "2" >>,
      << "0", "*", "0", "^", "-", "1" >>,
      << "0", "^", "-", "1", "-", "0", "^", "-", "1" >>,
      << "f", "(", "2", ")", "-", "-", "1" >>,
      << "2", "^", "-", "f", "(", "1", ")" >>,
      << "(", "1", ")", " ", "(", "2", ")" >> }
       \cup ArgCalls

\* a registry with definitions under the names of two built-ins, as
\* register_custom_function_async takes them: sin(x) = x+1 and fact(n) = n
BuiltinNamed ==
    SampleFunctions
    @@ (<< "s", "i", "n" >> :> CustomFunction(<< Name("x") >>, << "x", "+", "1" >>))
    @@ (<< "f", "a", "c", "t" >> :> CustomFunction(<< Name("n") >>, << "n" >>))

\* calls with literal arguments given under that registry
BuiltinNamedCalls ==
    { << "s", "i", "n", "(", "0", ")" >>,
      << "f", "a", "c", "t", "(", "3", ")" >>,
      << "c", "o", "s", "(", "0", ")" >>,
      << "S", "I", "N", "(", "0", ")" >>,
      << "f", "(", "3", ")" >>,
      << "p", "(", "2", ",", "3", ")" >> }

\* one request: the line, the entry point it is given to and the registry as
\* loaded
Requests ==
    [line : Inputs, mode : {"calculate"}, functions : {NoFunctions}]
    \cup [line : CallInputs, mode : {"calculate", "custom"},
          functions : {SampleFunctions}]
    \cup [line : BuiltinNamedCalls, mode : {"calculate", "custom"},
          functions : {BuiltinNamed}]

(* --------------------------- state machine ---------------------------- *)
VARIABLES
    request,  \* the expression handed to the entry point
    mode,     \* "calculate" (cli::calculate) or "custom" (calculate_with_custom)
    input,    \* the text handed to the lexer
    pc,       \* "lex", "evaluate", "scan" or "done"
    tokens,   \* the token sequence returned by the lexer
    pos,      \* index of the next token of the scan
    values,   \* the value stack of evaluate
    ops,      \* the operator stack of evaluate
    applied,  \* log of the operator applications made so far
    result,   \* what the entry point returns, once it returns
    call,     \* the text of the calculate_with_custom call in progress
    frames,   \* the evaluate calls suspended in a nested custom-function call
    passes,   \* passes made by the expansion loop in progress
    rpc,      \* where each registering thread is in register_custom_function_async
    rreq,     \* the definition each registering thread registers
    rres,     \* what each registration returned: "none" until it returns
    json,     \* the registry as serialized by each thread's save_functions_async
    file,     \* the content of FUNC_FILE
    runmode,  \* how the line in progress was given to the program
    lines,    \* the number of lines given to the program so far
    hfile,    \* the history file
    tasks     \* the add_entry calls in progress

\* the threads that call register_custom_function_async
Registrars == {"r1", "r2"}

NoRequest == [name |-> <<>>, parameters |-> <<>>, expression |-> <<>>]

\* the registering threads and the file they save to
threads == << rpc, rreq, rres, json, file >>

\* no thread but the evaluating one runs
NoThreads ==
    /\ rpc = [t \in Registrars |-> "done"]
    /\ rreq = [t \in Registrars |-> NoRequest]
    /\ rres = [t \in Registrars |-> "none"]
    /\ json = [t \in Registrars |-> NoFunctions]
    /\ file = functions

\* the history file before it is first written
NoFile == [exists |-> FALSE, content |-> <<>>]

\* the run of the program and its history
store == << runmode, lines, hfile, tasks >>

\* one expression, with no history kept
NoRun ==
    /\ runmode = "none"
    /\ lines = 0
    /\ hfile = NoFile
    /\ tasks = <<>>

\* the request and the registry
env == << request, mode, functions, lock, passes, threads, store >>

\* the nesting of custom-function calls
nest == << call, frames >>

vars == << env, nest, input, pc, tokens, pos, values, ops, applied, result >>

Init ==
    /\ \E r \in Requests :
          /\ request = r.line /\ mode = r.mode /\ functions = r.functions
          /\ input = IF r.mode = "calculate" THEN r.line ELSE <<>>
          /\ pc = IF r.mode = "calculate" THEN "lex" ELSE "expand"
          /\ call = IF r.mode = "calculate" THEN <<>> ELSE r.line
    /\ frames = <<>>
    /\ lock = "free"
    /\ passes = 0
    /\ NoThreads
    /\ NoRun
    /\ tokens = <<>>
    /\ pos = 1
    /\ values = <<>>
    /\ ops = <<>>
    /\ applied = <<>>
    /\ result = NoneRes

Cur == EvalState(values, ops, applied, NoneRes)

\* store the working state; an error or a panic ends the call
Store(E) ==
    \E S \in { E } :
        /\ values' = S.values
        /\ ops' = S.ops
        /\ applied' = S.applied
        /\ result' = S.res
        /\ pc' = IF S.res.tag = "None" THEN "scan" ELSE "done"

\* calculate_with_custom: expand_custom_functions(expr)?
DoExpand ==
    /\ pc = "expand"
    /\ \E expanded \in { ExpandCustomFunctions(call) } :
         IF expanded.ok
         THEN input' = expanded.text /\ pc' = "lex" /\ result' = result
         ELSE input' = input /\ pc' = "done" /\ result' = Err(expanded.err)
    /\ UNCHANGED << env, nest, tokens, pos, values, ops, applied >>

\* calculate / calculate_with_custom: lexer.tokenize()?
DoTokenize ==
    /\ pc = "lex"
    /\ \E l \in { Tokenize(input) } :
         IF l.ok
         THEN tokens' = l.toks /\ pc' = "evaluate" /\ result' = result
         ELSE tokens' = tokens /\ pc' = "done" /\ result' = Err(l.err)
    /\ UNCHANGED << env, nest, input, pos, values, ops, applied >>

\* evaluate: the empty check and the two fresh stacks
EvaluateEntry ==
    /\ pc = "evaluate"
    /\ IF tokens = <<>>
       THEN pc' = "done" /\ result' = Err("Empty expression")
       ELSE pc' = "scan" /\ result' = result
    /\ UNCHANGED << env, nest, input, tokens, pos, values, ops, applied >>

AtToken(kinds) == pc = "scan" /\ pos <= Len(tokens) /\ tokens[pos].t \in kinds

ScanNumber ==
    /\ AtToken({"Number"})
    /\ Store(OnNumber(Cur, tokens[pos]))
    /\ pos' = pos + 1
    /\ UNCHANGED << env, nest, input, tokens >>

ScanLeftParen ==
    /\ AtToken({"LeftParen"})
    /\ Store(OnLeftParen(Cur, tokens[pos]))
    /\ pos' = pos + 1
    /\ UNCHANGED << env, nest, input, tokens >>

ScanRightParen ==
    /\ AtToken({"RightParen"})
    /\ Store(OnRightParen(Cur, tokens[pos]))
    /\ pos' = pos + 1
    /\ UNCHANGED << env, nest, input, tokens >>

ScanUnaryMinus ==
    /\ AtToken({"UnaryMinus"})
    /\ Store(OnUnaryMinus(Cur, tokens[pos]))
    /\ pos' = pos + 1
    /\ UNCHANGED << env, nest, input, tokens >>

ScanAddSub ==
    /\ AtToken({"Add", "Subtract"})
    /\ Store(OnAddSub(Cur, tokens[pos]))
    /\ pos' = pos + 1
    /\ UNCHANGED << env, nest, input, tokens >>

ScanMulDivMod ==
    /\ AtToken({"Multiply", "Divide", "Modulo"})
    /\ Store(OnMulDivMod(Cur, tokens[pos]))
    /\ pos' = pos + 1
    /\ UNCHANGED << env, nest, input, tokens >>

ScanPower ==
    /\ AtToken({"Power"})
    /\ Store(OnPower(Cur, tokens[pos]))
    /\ pos' = pos + 1
    /\ UNCHANGED << env, nest, input, tokens >>

\* the texts of the calculate_with_custom calls the thread is inside of
CallStack == ({call} \cup {frames[i].call : i \in 1..Len(frames)}) \ {<<>>}

\* what evaluate_function_call comes to on a token without a nested
\* evaluation: a value, a failure, or the overflow of the stack when the call
\* repeats one it is nested in; no result when a calculate_with_custom call
\* is to be entered
CallOutcome(token) ==
    LET c == CallCheck(token.name, token.args) IN
    IF c.tag # "None" THEN c
    ELSE IF CallText(token.name, token.args) \in CallStack THEN StackOverflow
    ELSE NoneRes

\* Token::FunctionCall, for a call that ends inside evaluate_function_call
ScanFunctionCall ==
    /\ AtToken({"FunctionCall"})
    /\ \E r \in { CallOutcome(tokens[pos]) } :
         /\ r.tag # "None"
         /\ Store(IF r.tag = "Ok"
                  THEN EvalState(Append(values, r.v), ops, applied, NoneRes)
                  ELSE Fail(Cur, ops, r))
    /\ pos' = pos + 1
    /\ UNCHANGED << env, nest, input, tokens >>

\* the evaluate call as it stands when it calls into a custom function
Frame == [call |-> call, input |-> input, tokens |-> tokens, pos |-> pos,
          values |-> values, ops |-> ops]

\* Token::FunctionCall, for a call of a registered function with number
\* arguments: calculate_with_custom is entered with the text of the call
EnterCall ==
    /\ AtToken({"FunctionCall"})
    /\ CallOutcome(tokens[pos]).tag = "None"
    /\ frames' = Append(frames, Frame)
    /\ call' = CallText(tokens[pos].name, tokens[pos].args)
    /\ pc' = "expand"
    /\ input' = <<>> /\ tokens' = <<>> /\ pos' = 1
    /\ values' = <<>> /\ ops' = <<>>
    /\ UNCHANGED << env, applied, result >>

\* one operator popped by the final loop
Drain ==
    /\ pc = "scan" /\ pos > Len(tokens) /\ ops # <<>>
    /\ Store(DrainStep(Cur))
    /\ UNCHANGED << env, nest, input, tokens, pos >>

\* the final match on the number of values left, in the outermost evaluate:
\* the entry point returns; in a nested one that fails: the failure is handed
\* up through every caller
Finish ==
    /\ pc = "scan" /\ pos > Len(tokens) /\ ops = <<>>
    /\ frames = <<>> \/ FinalCheck(Cur).tag # "Ok"
    /\ result' = FinalCheck(Cur)
    /\ pc' = "done"
    /\ UNCHANGED << env, nest, input, tokens, pos, values, ops, applied >>

\* the final match in a nested evaluate that has one value: the value is
\* pushed by the evaluate that made the call, which goes on with its scan
ReturnFromCall ==
    /\ pc = "scan" /\ pos > Len(tokens) /\ ops = <<>>
    /\ frames # <<>> /\ FinalCheck(Cur).tag = "Ok"
    /\ LET caller == Last(frames) IN
         /\ call' = caller.call
         /\ input' = caller.input
         /\ tokens' = caller.tokens
         /\ pos' = caller.pos + 1
         /\ values' = Append(caller.values, FinalCheck(Cur).v)
         /\ ops' = caller.ops
    /\ frames' = Front(frames)
    /\ UNCHANGED << env, pc, applied, result >>

Next ==
    \/ DoExpand
    \/ DoTokenize
    \/ EvaluateEntry
    \/ ScanNumber
    \/ ScanLeftParen
    \/ ScanRightParen
    \/ ScanUnaryMinus
    \/ ScanAddSub
    \/ ScanMulDivMod
    \/ ScanPower
    \/ ScanFunctionCall
    \/ EnterCall
    \/ Drain
    \/ Finish
    \/ ReturnFromCall

Spec == Init /\ [][Next]_vars

Done == pc = "done"

(* ---------------- the registry used by several threads ---------------- *)
\* the registry the threads start with
LoadedFunctions ==
    Define("f", << "x" >>, << "x", "*", "2" >>)
    @@ Define("g", << "y" >>, << "f", "(", "y", ")", "+", "1" >>)

Registration(name, parameters, expression) ==
    [name |-> Name(name),
     parameters |-> [i \in 1..Len(parameters) |-> Name(parameters[i])],
     expression |-> expression]

\* the definitions registered: two of one new name, one of a name that is
\* taken, one without parameters
Registrations ==
    { Registration("k", << "x" >>, << "f", "(", "x", ")", "+", "1" >>),
      Registration("k", << "y" >>, << "y", "-", "1" >>),
      Registration("f", << "x" >>, << "x" >>),
      Registration("j", << >>, << "1" >>) }

\* what the evaluating thread is given
Evaluations ==
    [line : { << "k", "(", "1", ")" >>, << "f", "(", "3", ")", "+", "1" >>, << "2", "^", "-", "f", "(", "1", ")" >>, << "s", "i", "n", "(", "0", ")", "+", "j", "(", ")" >>, << "g", "(", "3", ")" >> },
     mode : {"calculate", "custom"}]

InitReg ==
    /\ \E r \in Evaluations :
          /\ request = r.line /\ mode = r.mode
          /\ pc = IF r.mode = "calculate" THEN "lex" ELSE "expand"
          /\ call = IF r.mode = "calculate" THEN <<>> ELSE r.line
    /\ input = request
    /\ functions = LoadedFunctions
    /\ file = LoadedFunctions
    /\ lock = "free"
    /\ passes = 0
    /\ rpc = [t \in Registrars |-> "lock"]
    /\ rreq \in [Registrars -> Registrations]
    /\ rres = [t \in Registrars |-> "none"]
    /\ json = [t \in Registrars |-> NoFunctions]
    /\ NoRun
    /\ frames = <<>>
    /\ tokens = <<>>
    /\ pos = 1
    /\ values = <<>>
    /\ ops = <<>>
    /\ applied = <<>>
    /\ result = NoneRes

\* what a step of a registering thread leaves alone
EvaluatorUnchanged ==
    UNCHANGED << store, request, mode, passes, nest, input, pc, tokens, pos, values,
                 ops, applied, result >>

\* register_custom_function_async: CUSTOM_FUNCTIONS.lock()
RegisterLock(t) ==
    /\ rpc[t] = "lock"
    /\ Acquire(t)
    /\ rpc' = [rpc EXCEPT ![t] = "check"]
    /\ UNCHANGED << functions, rreq, rres, json, file >>
    /\ EvaluatorUnchanged

\* map.contains_key(name): the registration of a name that is taken returns
\* the error, and the guard is dropped
RegisterCheck(t) ==
    /\ rpc[t] = "check"
    /\ IF rreq[t].name \in DOMAIN functions
       THEN /\ rpc' = [rpc EXCEPT ![t] = "done"]
            /\ rres' = [rres EXCEPT ![t] = "Err"]
            /\ Release
       ELSE /\ rpc' = [rpc EXCEPT ![t] = "insert"]
            /\ rres' = rres
            /\ lock' = lock
    /\ UNCHANGED << functions, rreq, json, file >>
    /\ EvaluatorUnchanged

\* map.insert(name, CustomFunction { .. }), and the end of the block
RegisterInsert(t) ==
    /\ rpc[t] = "insert"
    /\ functions' =
          [n \in DOMAIN functions \cup {rreq[t].name} |->
              IF n = rreq[t].name
              THEN CustomFunction(rreq[t].parameters, rreq[t].expression)
              ELSE functions[n]]
    /\ Release
    /\ rpc' = [rpc EXCEPT ![t] = "save"]
    /\ UNCHANGED << rreq, rres, json, file >>
    /\ EvaluatorUnchanged

\* save_functions_async: CUSTOM_FUNCTIONS.lock()
SaveLock(t) ==
    /\ rpc[t] = "save"
    /\ Acquire(t)
    /\ rpc' = [rpc EXCEPT ![t] = "serialize"]
    /\ UNCHANGED << functions, rreq, rres, json, file >>
    /\ EvaluatorUnchanged

\* serde_json::to_string_pretty(&*map), and the end of the block
SaveSerialize(t) ==
    /\ rpc[t] = "serialize"
    /\ json' = [json EXCEPT ![t] = functions]
    /\ Release
    /\ rpc' = [rpc EXCEPT ![t] = "write"]
    /\ UNCHANGED << functions, rreq, rres, file >>
    /\ EvaluatorUnchanged

\* fs::write(FUNC_FILE, json), and the registration returns Ok(())
SaveWrite(t) ==
    /\ rpc[t] = "write"
    /\ file' = json[t]
    /\ rpc' = [rpc EXCEPT ![t] = "done"]
    /\ rres' = [rres EXCEPT ![t] = "Ok"]
    /\ UNCHANGED << functions, lock, rreq, json >>
    /\ EvaluatorUnchanged

Register(t) ==
    \/ RegisterLock(t)
    \/ RegisterCheck(t)
    \/ RegisterInsert(t)
    \/ SaveLock(t)
    \/ SaveSerialize(t)
    \/ SaveWrite(t)

\* the thread that evaluates, as it holds the mutex
Evaluating == "ev"

\* expand_custom_functions: CUSTOM_FUNCTIONS.lock() of one pass of the loop
ExpandLock ==
    /\ pc = "expand"
    /\ Acquire(Evaluating)
    /\ pc' = "pass"
    /\ UNCHANGED << store, request, mode, functions, passes, threads, nest, input,
                    tokens, pos, values, ops, applied, result >>

\* one pass of the loop on the map as locked, the guard dropped at its end;
\* after the last pass the check of the text, and calculate_with_custom goes
\* on to the lexer or returns the failure
ExpandOnePass ==
    /\ pc = "pass"
    /\ \E temp \in { ExpandPass(functions, input, 1) } :
         IF temp # input /\ passes + 1 < ExpandPasses
         THEN /\ input' = temp
              /\ passes' = passes + 1
              /\ pc' = "expand"
              /\ result' = result
         ELSE /\ passes' = 0
              /\ \E expanded \in { ExpandEnd(temp) } :
                   IF expanded.ok
                   THEN input' = expanded.text /\ pc' = "lex" /\ result' = result
                   ELSE input' = input /\ pc' = "done" /\ result' = Err(expanded.err)
    /\ Release
    /\ UNCHANGED << store, request, mode, functions, threads, nest, tokens, pos,
                    values, ops, applied >>

\* Token::FunctionCall of a built-in function: the registry is not read
ScanBuiltin ==
    /\ AtToken({"FunctionCall"})
    /\ Builtin(tokens[pos].name, tokens[pos].args).tag # "None"
    /\ ScanFunctionCall

\* is_function_defined: CUSTOM_FUNCTIONS.lock()
DefinedLock ==
    /\ AtToken({"FunctionCall"})
    /\ Builtin(tokens[pos].name, tokens[pos].args).tag = "None"
    /\ Acquire(Evaluating)
    /\ pc' = "defined"
    /\ UNCHANGED << store, request, mode, functions, passes, threads, nest, input,
                    tokens, pos, values, ops, applied, result >>

\* map.contains_key(name) and the guard dropped, for a call that ends inside
\* evaluate_function_call
DefinedEnds ==
    /\ pc = "defined"
    /\ \E r \in { CallOutcome(tokens[pos]) } :
         /\ r.tag # "None"
         /\ Store(Fail(Cur, ops, r))
    /\ pos' = pos + 1
    /\ Release
    /\ UNCHANGED << store, request, mode, functions, passes, threads, nest, input,
                    tokens >>

\* map.contains_key(name) and the guard dropped, for a call that goes on to
\* calculate_with_custom
DefinedEnters ==
    /\ pc = "defined"
    /\ CallOutcome(tokens[pos]).tag = "None"
    /\ Release
    /\ frames' = Append(frames, Frame)
    /\ call' = CallText(tokens[pos].name, tokens[pos].args)
    /\ input' = CallText(tokens[pos].name, tokens[pos].args)
    /\ pc' = "expand"
    /\ tokens' = <<>> /\ pos' = 1
    /\ values' = <<>> /\ ops' = <<>>
    /\ UNCHANGED << store, request, mode, functions, passes, threads, applied, result >>

\* the steps of the evaluating thread
Evaluation ==
    \/ ExpandLock
    \/ ExpandOnePass
    \/ DoTokenize
    \/ EvaluateEntry
    \/ ScanNumber
    \/ ScanLeftParen
    \/ ScanRightParen
    \/ ScanUnaryMinus
    \/ ScanAddSub
    \/ ScanMulDivMod
    \/ ScanPower
    \/ ScanBuiltin
    \/ DefinedLock
    \/ DefinedEnds
    \/ DefinedEnters
    \/ Drain
    \/ Finish
    \/ ReturnFromCall

NextReg ==
    \/ \E t \in Registrars : Register(t)
    \/ Evaluation

SpecReg == InitReg /\ [][NextReg]_vars

\* as long as a thread can take a step, the scheduler runs one
FairSpecReg == SpecReg /\ WF_vars(NextReg)

\* every thread has returned
AllDone == Done /\ \A t \in Registrars : rpc[t] = "done"

(* ------------------------ runs and the history ------------------------ *)
\* the max_entries given to HistoryManager::new (50 in main, 3 in the test
\* of history.rs), small enough for the lines of a run to exceed it
MaxEntries == 2

\* the lines given to the program, one process after another or one line
\* after another of one process
MaxLines == 3

\* serde_json::to_string of an f64: a number, or null for a value that is
\* not finite
JsonOf(v) ==
    IF v.k \in {"inf", "ninf", "nan"}
    THEN [kind |-> "null", v |-> Zero]
    ELSE [kind |-> "number", v |-> v]

\* serde_json::to_string_pretty(history)
ToJson(history) ==
    [i \in 1..Len(history) |->
        [expression |-> history[i].expression,
         result     |-> JsonOf(history[i].result),
         timestamp  |-> history[i].timestamp]]

LoadOk(history) == [ok |-> TRUE, history |-> history]
LoadErr         == [ok |-> FALSE, history |-> <<>>]

\* serde_json::from_str::<Vec<HistoryEntry>>: null is no f64
FromJson(content) ==
    IF \E i \in 1..Len(content) : content[i].result.kind # "number"
    THEN LoadErr
    ELSE LoadOk([i \in 1..Len(content) |->
                    [expression |-> content[i].expression,
                     result     |-> content[i].result.v,
                     timestamp  |-> content[i].timestamp]])

\* HistoryManager::load_history
LoadHistory(f) == IF ~f.exists THEN LoadOk(<<>>) ELSE FromJson(f.content)

\* .unwrap_or_default()
UnwrapOrDefault(loaded) == IF loaded.ok THEN loaded.history ELSE <<>>

\* HistoryManager::save_history
SaveHistory(history) == [exists |-> TRUE, content |-> ToJson(history)]

\* history.push(entry) and the removal of the first entry over max_entries
PushBounded(history, entry) ==
    LET pushed == Append(history, entry)
    IN  IF Len(pushed) > MaxEntries THEN Tail(pushed) ELSE pushed

\* the ways a line comes to the program: the expression argument, a line of
\* piped standard input, the -f argument, a line of the interactive loop
RunModes == {"oneshot", "piped", "fcall", "interactive"}

RunLines ==
    { << "1", "+", "1" >>, << "2", "^", "-", "1" >>, << "a", "r", "c", "c", "o", "s", "(", "2", ")" >>, << "1", "/", "0" >>, << "f", "(", "3", ")" >> }

\* cli::is_custom_function_call: the regex ^[a-zA-Z_][a-zA-Z0-9_]*\s*\(.*\)$
IsCustomFunctionCall(line) ==
    /\ line # <<>> /\ line[1] \in IdentStart
    /\ \E k \in { SkipSpace(line, IdentEnd(line, 1)) } :
          k < Len(line) /\ line[k] = "(" /\ line[Len(line)] = ")"

\* the entry point a line is given to: calculate_with_custom for -f and for
\* a line of the interactive loop that looks like a call, calculate otherwise
EntryPoint(m, line) ==
    IF m = "fcall" \/ (m = "interactive" /\ IsCustomFunctionCall(line))
    THEN "custom" ELSE "calculate"

InitRun ==
    /\ \E m \in RunModes, line \in RunLines :
          /\ runmode = m
          /\ request = line
          /\ mode = EntryPoint(m, line)
          /\ input = IF EntryPoint(m, line) = "calculate" THEN line ELSE <<>>
          /\ pc = IF EntryPoint(m, line) = "calculate" THEN "lex" ELSE "expand"
          /\ call = IF EntryPoint(m, line) = "calculate" THEN <<>> ELSE line
    /\ lines = 1
    /\ hfile = NoFile
    /\ tasks = <<>>
    /\ functions = LoadedFunctions
    /\ lock = "free"
    /\ passes = 0
    /\ NoThreads
    /\ frames = <<>>
    /\ tokens = <<>>
    /\ pos = 1
    /\ values = <<>>
    /\ ops = <<>>
    /\ applied = <<>>
    /\ result = NoneRes

\* a history entry is made of every result
RecordableAlways(r) == TRUE

\* `if let Ok(result) = ...` / `Ok(result) => ...`: the arm that makes the
\* history entry
Recordable(r) == r.tag = "Ok"

\* HistoryEntry { expression, result, timestamp }, and the add_entry call on
\* it: not yet loaded
AddEntry(awaited) ==
    [entry   |-> [expression |-> request, result |-> result.v, timestamp |-> lines],
     stage   |-> "load",
     history |-> <<>>,
     awaited |-> awaited]

\* what the steps of the history leave alone
CalculatorUnchanged ==
    UNCHANGED << request, mode, functions, lock, passes, threads, nest, input,
                 tokens, pos, values, ops, applied, result >>

\* main: history_manager.add_entry(entry).await after a result, for the
\* expression argument, a piped line and the -f argument
RecordAwaited ==
    /\ pc = "done"
    /\ runmode \in {"oneshot", "piped", "fcall"}
    /\ Recordable(result)
    /\ tasks' = Append(tasks, AddEntry(TRUE))
    /\ pc' = "record"
    /\ UNCHANGED << runmode, lines, hfile >>
    /\ CalculatorUnchanged

\* cli::run: tokio::spawn of add_entry after a result of calculate; the loop
\* goes on
RecordSpawned ==
    /\ pc = "done"
    /\ runmode = "interactive" /\ mode = "calculate"
    /\ Recordable(result)
    /\ tasks' = Append(tasks, AddEntry(FALSE))
    /\ pc' = "next"
    /\ UNCHANGED << runmode, lines, hfile >>
    /\ CalculatorUnchanged

\* the arms that make no history entry: a failure in every mode, and both
\* outcomes of a custom call typed in the interactive loop
NotRecorded ==
    /\ pc = "done"
    /\ ~Recordable(result) \/ (runmode = "interactive" /\ mode = "custom")
    /\ pc' = "next"
    /\ UNCHANGED << store >>
    /\ CalculatorUnchanged

\* add_entry: self.load_history().await.unwrap_or_default()
AddLoad(i) ==
    /\ tasks[i].stage = "load"
    /\ tasks' = [tasks EXCEPT ![i].stage = "save",
                              ![i].history = UnwrapOrDefault(LoadHistory(hfile))]
    /\ UNCHANGED << runmode, lines, hfile, pc >>
    /\ CalculatorUnchanged

\* add_entry: push, remove(0) over the bound, save_history; an awaited call
\* lets main go on
AddSave(i) ==
    /\ tasks[i].stage = "save"
    /\ hfile' = SaveHistory(PushBounded(tasks[i].history, tasks[i].entry))
    /\ tasks' = [k \in 1..(Len(tasks) - 1) |-> IF k < i THEN tasks[k] ELSE tasks[k + 1]]
    /\ pc' = IF tasks[i].awaited THEN "next" ELSE pc
    /\ UNCHANGED << runmode, lines >>
    /\ CalculatorUnchanged

\* clear_history: the -C run, or the clearhistory command of the
\* interactive loop
ClearHistory ==
    /\ pc = "next" /\ lines < MaxLines
    /\ hfile' = SaveHistory(<<>>)
    /\ lines' = lines + 1
    /\ runmode' \in {"clear", "interactive"}
    /\ UNCHANGED << tasks, pc >>
    /\ CalculatorUnchanged

\* the next line: of the same process, or of another run of the program
NextLine ==
    /\ pc = "next" /\ lines < MaxLines
    /\ \E m \in RunModes, line \in RunLines :
          /\ runmode' = m
          /\ request' = line
          /\ mode' = EntryPoint(m, line)
          /\ input' = IF EntryPoint(m, line) = "calculate" THEN line ELSE <<>>
          /\ pc' = IF EntryPoint(m, line) = "calculate" THEN "lex" ELSE "expand"
          /\ call' = IF EntryPoint(m, line) = "calculate" THEN <<>> ELSE line
    /\ lines' = lines + 1
    /\ frames' = <<>>
    /\ tokens' = <<>>
    /\ pos' = 1
    /\ values' = <<>>
    /\ ops' = <<>>
    /\ applied' = <<>>
    /\ result' = NoneRes
    /\ UNCHANGED << hfile, tasks, functions, lock, passes, threads >>

NextRun ==
    \/ Next
    \/ RecordAwaited
    \/ RecordSpawned
    \/ NotRecorded
    \/ \E i \in 1..Len(tasks) : AddLoad(i)
    \/ \E i \in 1..Len(tasks) : AddSave(i)
    \/ ClearHistory
    \/ NextLine

SpecRun == InitRun /\ [][NextRun]_vars

\* the entries the history file holds
Stored == hfile.content

(* ------------------- reading a token sequence back -------------------- *)
\* v == w on f64 results (-0.0 == 0.0), a NaN counted as the same outcome
NumEq(v, w) == v = w \/ (IsZero(v) /\ IsZero(w))

\* r and ref are the same outcome: both values and equal, or both failures of
\* the same kind of ending; an outcome outside the exact range decides nothing
SameOutcome(r, ref) ==
    \/ (r.tag = "Ok" /\ IsOver(r.v))
    \/ (ref.tag = "Ok" /\ IsOver(ref.v))
    \/ (r.tag = ref.tag /\ (r.tag = "Ok" => NumEq(r.v, ref.v)))

\* x op y on two outcomes, the left failure first
Bin(op, x, y) ==
    IF x.tag # "Ok" THEN x
    ELSE IF y.tag # "Ok" THEN y
    ELSE ApplyOperator(op, x.v, y.v)

\* -x on an outcome
Neg(x) == IF x.tag = "Ok" THEN Ok(FNeg(x.v)) ELSE x

RECURSIVE NegN(_, _)
NegN(v, k) == IF k = 0 THEN v ELSE NegN(FNeg(v), k - 1)

RECURSIVE CountUM(_, _)
CountUM(toks, i) ==
    IF i <= Len(toks) /\ toks[i] = UnaryMinus THEN 1 + CountUM(toks, i + 1) ELSE 0

KindAt(toks, i) == IF i >= 1 /\ i <= Len(toks) THEN toks[i].t ELSE "none"

NoAtom == [ok |-> FALSE, v |-> Zero, next |-> 0, negs |-> 0]

\* the operand starting at token i: -...-n  or  -...-( -...-n ), with its value
Atom(toks, i) ==
    LET k == CountUM(toks, i)
        p == i + k
        j == CountUM(toks, p + 1)
        q == p + 1 + j
    IN  IF KindAt(toks, p) = "Number"
        THEN [ok |-> TRUE, v |-> NegN(toks[p].v, k), next |-> p + 1, negs |-> k]
        ELSE IF KindAt(toks, p) = "LeftParen" /\ KindAt(toks, q) = "Number"
                /\ KindAt(toks, q + 1) = "RightParen"
        THEN [ok |-> TRUE, v |-> NegN(toks[q].v, k + j), next |-> q + 2, negs |-> k]
        ELSE NoAtom

BinaryKinds == {"Add", "Subtract", "Multiply", "Divide", "Modulo", "Power"}

Tier(kind) ==
    CASE kind \in {"Add", "Subtract"}             -> 1
      [] kind \in {"Multiply", "Divide", "Modulo"} -> 2
      [] kind = "Power"                           -> 3

\* tokens read as  a op1 b op2 c
Chain3 ==
    LET a == Atom(tokens, 1)
        b == Atom(tokens, a.next + 1)
        c == Atom(tokens, b.next + 1)
    IN  [ok  |-> /\ a.ok /\ KindAt(tokens, a.next) \in BinaryKinds
                 /\ b.ok /\ KindAt(tokens, b.next) \in BinaryKinds
                 /\ c.ok /\ c.next = Len(tokens) + 1,
         a |-> a, b |-> b, c |-> c,
         op1 |-> IF a.ok /\ a.next <= Len(tokens) THEN tokens[a.next] ELSE Add,
         op2 |-> IF a.ok /\ b.ok /\ b.next <= Len(tokens) THEN tokens[b.next] ELSE Add]

\* tokens read as  a op b
Pair2 ==
    LET a == Atom(tokens, 1)
        b == Atom(tokens, a.next + 1)
    IN  [ok |-> /\ a.ok /\ KindAt(tokens, a.next) \in BinaryKinds
                /\ b.ok /\ b.next = Len(tokens) + 1,
         a |-> a, b |-> b,
         op |-> IF a.ok /\ a.next <= Len(tokens) THEN tokens[a.next] ELSE Add]

\* no operand written with a bare leading minus stands directly before a '^'
\* (whether -x^y reads (-x)^y is the matter of C4 alone)
NoMinusBase(ch) ==
    /\ ~(ch.a.negs > 0 /\ ch.op1.t = "Power")
    /\ ~(ch.b.negs > 0 /\ ch.op2.t = "Power")

(* ------------------------------- claims ------------------------------- *)
\* the input line is the given lexemes
Line(ls) == input = Flatten(ls)

\* C1: a chain  a op1 b op2 c  of two operators of the same tier (+,- or
\* *,/,%) evaluates as (a op1 b) op2 c, also when an operand carries a unary
\* minus.
C1_LeftAssoc ==
    LET ch == Chain3 IN
    (Done /\ ch.ok /\ Tier(ch.op1.t) = Tier(ch.op2.t) /\ Tier(ch.op1.t) < 3)
        => SameOutcome(result,
                       Bin(ch.op2, Bin(ch.op1, Ok(ch.a.v), Ok(ch.b.v)), Ok(ch.c.v)))

\* C2: in  a op1 b op2 c  the operator of the higher tier is applied first,
\* whatever the order of appearance: a + b * c = a + (b * c) and
\* a ^ b * c = (a ^ b) * c, also when an operand carries a unary minus.
C2_Precedence ==
    LET ch == Chain3 IN
    (Done /\ ch.ok /\ NoMinusBase(ch) /\ Tier(ch.op1.t) # Tier(ch.op2.t))
        => SameOutcome(result,
              IF Tier(ch.op1.t) > Tier(ch.op2.t)
              THEN Bin(ch.op2, Bin(ch.op1, Ok(ch.a.v), Ok(ch.b.v)), Ok(ch.c.v))
              ELSE Bin(ch.op1, Ok(ch.a.v), Bin(ch.op2, Ok(ch.b.v), Ok(ch.c.v))))

\* C3: a ^ b ^ c evaluates as a ^ (b ^ c): the second Power is pushed over the
\* first, and the two are applied last-pushed-first (b ^ c, then a ^ that).
C3_PowerRightAssoc ==
    LET ch == Chain3 IN
    (Done /\ ch.ok /\ NoMinusBase(ch) /\ ch.op1 = Power /\ ch.op2 = Power)
        => LET inner == ApplyOperator(Power, ch.b.v, ch.c.v)
               pows  == SelectSeq(applied, LAMBDA e : e.op = "Power")
           IN  /\ SameOutcome(result, Bin(Power, Ok(ch.a.v), inner))
               /\ Len(pows) >= 1
               /\ pows[1].a = ch.b.v /\ pows[1].b = ch.c.v
               /\ (inner.tag = "Ok" =>
                     Len(pows) = 2 /\ pows[2].a = ch.a.v /\ pows[2].b = inner.v)

\* C3 witness: 2^3^2 has been evaluated to 512
C3_Witness ==
    Done /\ Line(<< Lit(2), <<"^">>, Lit(3), <<"^">>, Lit(2) >>)
         /\ result = Ok(Int2F(512))

\* tokens read as  -a op b  with a a literal
MinusPairAny ==
    LET pr == Pair2 IN
    pr.ok /\ pr.a.negs = 1 /\ KindAt(tokens, 2) = "Number"

\* tokens read as  -a op b  with a a literal inside the i64 range
MinusPair == MinusPairAny /\ ~IsBigK(Pair2.a.v)

OpOfChar(c) ==
    CASE c = "+" -> Add [] c = "-" -> Subtract [] c = "*" -> Multiply
      [] c = "/" -> Divide [] c = "%" -> Modulo [] c = "^" -> Power

RECURSIVE CountMinus(_, _)
CountMinus(line, i) ==
    IF i <= Len(line) /\ line[i] = "-" THEN 1 + CountMinus(line, i + 1) ELSE 0

RECURSIVE NegOutcome(_, _)
NegOutcome(x, k) == IF k = 0 THEN x ELSE NegOutcome(Neg(x), k - 1)

\* the input line read as  [a op] -...- x : n minus signs in front of the
\* operand x, a literal or a parenthesized group, at the start of the line or
\* after a binary operator
NegRun ==
    LET pre   == Len(input) >= 2 /\ << input[1] >> \in Lits /\ input[2] \in BinOpChars
        start == IF pre THEN 3 ELSE 1
        n     == CountMinus(input, start)
        x     == SubSeq(input, start + n, Len(input))
    IN  [ok |-> x \in Groups, pre |-> pre, n |-> n, x |-> x]

\* what C5 says the line evaluates to: x negated when n is odd
NegRunValue(nr) ==
    LET xv == NegOutcome(Calculate(nr.x), nr.n % 2)
    IN  IF nr.pre
        THEN Bin(OpOfChar(input[2]), Calculate(<< input[1] >>), xv)
        ELSE xv

UnaryApplied == SelectSeq(applied, LAMBDA e : e.op = "UnaryMinus")
UnaryTokens  == SelectSeq(tokens, LAMBDA t : t = UnaryMinus)

\* C5: n minus signs in front of an operand x (a literal or a group, first in
\* the line or after a binary operator) evaluate to x for even n and to -x for
\* odd n, and every UnaryMinus token is applied exactly once.
C5_DoubleNegation ==
    LET nr == NegRun IN
    (Done /\ nr.ok) =>
        /\ SameOutcome(result, NegRunValue(nr))
        /\ result.tag = "Ok" => Len(UnaryApplied) = Len(UnaryTokens)
        /\ result.tag = "Ok" => Len(UnaryTokens) >= nr.n

\* C5 witness: ---(3) after "2*" has been evaluated to -6 with three negations
C5_Witness ==
    Done /\ Line(<< Lit(2), <<"*">>, Minuses(3), Paren(Lit(3)) >>)
         /\ result = Ok(Int2F(-6)) /\ Len(UnaryApplied) = 3

\* parentheses of a line are balanced
RECURSIVE DepthAfter(_, _, _, _)
DepthAfter(s, i, open, close) ==
    IF i = 0 THEN 0
    ELSE DepthAfter(s, i - 1, open, close)
           + (IF s[i] = open THEN 1 ELSE IF s[i] = close THEN -1 ELSE 0)

Balanced(s, open, close) ==
    /\ DepthAfter(s, Len(s), open, close) = 0
    /\ \A i \in 1..Len(s) : DepthAfter(s, i, open, close) >= 0

\* C6 as claimed: "(" + e + ")" evaluates to what e evaluates to, and fails
\* when e fails.
C6_WrapInParens ==
    Done => LET w == Calculate(Paren(input)) IN
            /\ result.tag = "Ok" => w = result
            /\ result.tag # "Ok" => w.tag # "Ok"

\* C6 amended: "(" + e + ")" evaluates to what e evaluates to; when e fails
\* and the parentheses of e are balanced, "(" + e + ")" fails too.
C6_WrapBalanced ==
    Done => LET w == Calculate(Paren(input)) IN
            /\ result.tag = "Ok" => w = result
            /\ (result.tag # "Ok" /\ Balanced(input, "(", ")")) => w.tag # "Ok"

\* C6 witness: 1+2*3 has been evaluated to 7, and so is (1+2*3)
C6_Witness ==
    /\ Done /\ Line(<< Lit(1), <<"+">>, Lit(2), <<"*">>, Lit(3) >>)
    /\ result = Ok(Int2F(7)) /\ Calculate(Paren(input)) = result

RECURSIVE Repeat(_, _)
Repeat(t, n) == IF n = 0 THEN <<>> ELSE << t >> \o Repeat(t, n - 1)

FinalDepth == DepthAfter(tokens, Len(tokens), LeftParen, RightParen)
MinDepth ==
    LET ds == {DepthAfter(tokens, i, LeftParen, RightParen) : i \in 0..Len(tokens)}
    IN  CHOOSE d \in ds : \A e \in ds : d <= e

\* the only defect of the token sequence is FinalDepth unclosed LeftParens
OnlyUnclosed ==
    /\ MinDepth >= 0 /\ FinalDepth > 0
    /\ Evaluate(tokens \o Repeat(RightParen, FinalDepth)).tag = "Ok"

\* the only defect of the token sequence is RightParens with no open LeftParen
OnlyUnopened ==
    /\ MinDepth < 0 /\ FinalDepth = MinDepth
    /\ Evaluate(Repeat(LeftParen, -MinDepth) \o tokens).tag = "Ok"

\* C7: a token sequence whose only defect is an unclosed LeftParen or a
\* RightParen with no open LeftParen fails with 'Mismatched parentheses'.
C7_MismatchedParens ==
    (Done /\ tokens # <<>> /\ (OnlyUnclosed \/ OnlyUnopened))
        => result = Err("Mismatched parentheses")

\* the application e divides by zero, takes an integer modulo zero, or is 0^0
IsDomainFailure(e) ==
    \/ e.op = "Divide" /\ IsZero(e.b)
    \/ e.op = "Modulo" /\ ~IsOver(e.a) /\ ~HasFract(e.a) /\ ~HasFract(e.b) /\ IsZero(e.b)
    \/ e.op = "Power" /\ IsZero(e.a) /\ IsZero(e.b)

DomainError(e) ==
    CASE e.op = "Divide" -> Err("Division by zero")
      [] e.op = "Modulo" -> Err("Modulo by zero")
      [] e.op = "Power"  -> Err("Undefined operation: 0^0")

\* C8: as soon as a reduction step divides by zero, takes an integer modulo
\* zero or raises zero to zero, during the scan or the final drain, the
\* evaluation has ended with DivisionByZero / ModuloByZero / 0^0 and no value.
C8_DomainFailureEnds ==
    \A i \in 1..Len(applied) :
        IsDomainFailure(applied[i]) =>
            /\ i = Len(applied)
            /\ Done
            /\ result = DomainError(applied[i])

\* C8 witness: a division by zero inside a parenthesized group, after another
\* reduction of the scan, has ended the evaluation
C8_Witness ==
    /\ Done /\ result = Err("Division by zero")
    /\ Len(applied) >= 2 /\ IsDomainFailure(applied[Len(applied)])
    /\ pos <= Len(tokens)

\* a is congruent to r modulo b, for integer-valued a (2^63 and -2^63 included)
Congruent(a, r, b) ==
    LET m  == Abs(b)
        am == CASE a.k = "big"  -> Pow2Mod(I64Bits, m)
                [] a.k = "nbig" -> (m - Pow2Mod(I64Bits, m)) % m
                [] OTHER        -> a.n % m
    IN  (am - r) % m = 0

\* C9: every Modulo step a % b fails NonIntegerModulo when a or b has a
\* fractional part (before the zero check); for integer a and b # 0 it yields
\* r with a = q*b + r, |r| < |b| and r zero or of the sign of a.
C9_ModuloSemantics ==
    \A i \in 1..Len(applied) :
        LET e == applied[i] IN
        (e.op = "Modulo" /\ ~IsOver(e.a) /\ ~IsOver(e.b)) =>
            /\ (HasFract(e.a) \/ HasFract(e.b)) =>
                  e.r = Err("Modulo operation requires integer operands")
            /\ (~HasFract(e.a) /\ ~HasFract(e.b) /\ ~IsZero(e.b)) =>
                  /\ e.r.tag = "Ok"
                  /\ e.r.v.k = "q" /\ e.r.v.d = 1
                  /\ IsBigK(e.b) => NumEq(e.r.v, e.a) \/ (IsBigK(e.a) /\ IsZero(e.r.v))
                  /\ ~IsBigK(e.b) =>
                        /\ Congruent(e.a, e.r.v.n, e.b.n)
                        /\ Abs(e.r.v.n) < Abs(e.b.n)
                        /\ e.r.v.n = 0 \/ (e.r.v.n < 0 <=> IsNeg(e.a))

\* C10: evaluate returns a number or an error value for every token sequence;
\* no step panics.
C10_NeverPanics == result.tag # "Panic"


\* C11: a NaN is never returned as a value: when the evaluation ends with
\* Ok(v), v is not NaN.
C11_NaNNeverReturned == Done => ~(result.tag = "Ok" /\ IsNan(result.v))

\* the request is one call name(args) of a registered function, args free of
\* parentheses
SingleCall ==
    /\ request # <<>>
    /\ MatchCall(request, 1).ok
    /\ MatchCall(request, 1).next = Len(request) + 1
    /\ MatchCall(request, 1).name \in DOMAIN functions

\* the number of arguments a call supplies: none between empty parentheses,
\* else one more than there are commas
Supplied(args_str) ==
    IF Trim(args_str) = <<>> THEN 0
    ELSE 1 + Cardinality({i \in 1..Len(args_str) : args_str[i] = ","})

\* the functions of the sample registry that reach no call of themselves
NonRecursive == {Name("f"), Name("g"), Name("h"), Name("p")}

\* C12: expanding a call of a registered function fails with the
\* argument-count-mismatch error exactly when the number of supplied arguments
\* differs from the parameter count, for every parameter count including zero.
C12_ArgumentCountCheck ==
    LET c == MatchCall(request, 1) IN
    (Done /\ mode = "custom" /\ SingleCall /\ c.name \in NonRecursive) =>
        (result = Err("Custom function argument count mismatch")
            <=> Supplied(c.args_str) # Len(functions[c.name].parameters))

\* the values of the sample functions f(x) = x*2 and g(y) = f(y)+1
ValueOfF(x) == Bin(Multiply, x, Ok(Int2F(2)))
ValueOfG(y) == Bin(Add, ValueOfF(y), Ok(Int2F(1)))

\* C13: with non-recursive definitions, calculate_with_custom on a call with
\* the right number of arguments returns the value of the body with each
\* parameter replaced by the parenthesized argument, also for an arithmetic
\* or parenthesized argument and for a body that calls another function with
\* its own parameter (g(y) = f(y)+1).
C13_ExpansionComputesValue ==
    (Done /\ mode = "custom" /\ functions = SampleFunctions) =>
        \A arg \in ArgTexts :
            /\ request = CallOf("f", arg) => SameOutcome(result, ValueOfF(Calculate(arg)))
            /\ request = CallOf("g", arg) => SameOutcome(result, ValueOfG(Calculate(arg)))

\* C15: the evaluation of a custom-function call always runs to completion
\* with a value or a failure, for every registry, self-referential and
\* mutually recursive definitions included.
C15_CustomCallTerminates ==
    (Done /\ mode = "custom") => result.tag \in {"Ok", "Err"}

\* a token that stands for a value
IsOperand(token) == token.t \in {"Number", "FunctionCall"}

\* C16: no token sequence returned by tokenize makes evaluate end with more
\* than one value on the value stack, and tokenize never outputs two operand
\* tokens with no operator between them.
C16_StackImbalanceUnreachable ==
    /\ Done => result # Err("Too many values in the stack")
    /\ \A i \in 1..(Len(tokens) - 1) :
          ~(IsOperand(tokens[i]) /\ IsOperand(tokens[i + 1]))

\* the '-' characters of a text
MinusChars(text) == {i \in 1..Len(text) : text[i] = "-"}
\* the tokens a '-' is turned into
MinusTokens(toks) == {i \in 1..Len(toks) : toks[i].t \in {"UnaryMinus", "Subtract"}}

\* C17: the tokenizer emits UnaryMinus for a '-' exactly when no token
\* precedes it or the preceding token is one of Add, Subtract, Multiply,
\* Divide, Modulo, Power, LeftParen, UnaryMinus, and Subtract in every other
\* case (after Number, RightParen or FunctionCall); a '-' is never folded
\* into a number: every '-' outside a call's arguments gives one token and
\* every Number token is non-negative.
C17_MinusClassification ==
    /\ \A i \in 1..Len(tokens) :
          /\ tokens[i].t = "UnaryMinus" =>
                \/ i = 1
                \/ tokens[i - 1].t \in {"Add", "Subtract", "Multiply", "Divide",
                                        "Modulo", "Power", "LeftParen", "UnaryMinus"}
          /\ tokens[i].t = "Subtract" =>
                /\ i > 1
                /\ tokens[i - 1].t \in {"Number", "RightParen", "FunctionCall"}
          /\ tokens[i].t = "Number" => ~SignBit(tokens[i].v)
    /\ (tokens # <<>> /\ \A i \in 1..Len(input) : input[i] \notin IdentStart) =>
          Cardinality(MinusTokens(tokens)) = Cardinality(MinusChars(input))

\* a Subtract after a FunctionCall, a UnaryMinus after that Subtract and one
\* after a Power have been emitted
C17_Witness ==
    /\ \E i \in 2..Len(tokens) :
          /\ tokens[i - 1].t = "FunctionCall" /\ tokens[i].t = "Subtract"
          /\ i < Len(tokens) /\ tokens[i + 1].t = "UnaryMinus"
    \/ \E i \in 2..Len(tokens) :
          /\ tokens[i - 1].t = "Power" /\ tokens[i].t = "UnaryMinus"
          /\ tokens[1].t = "FunctionCall"


\* the entry a registration adds
EntryOf(r) == CustomFunction(r.parameters, r.expression)

\* C14: register_custom_function_async on a name that is in the registry
\* returns an error and changes no entry; on a new name it adds exactly that
\* entry; no entry is ever changed or removed, and of two concurrent
\* registrations of one name exactly one succeeds.
C14_RegisterOnce ==
    /\ [][/\ \A n \in DOMAIN functions :
                n \in DOMAIN functions' /\ functions'[n] = functions[n]
          /\ functions' # functions =>
                \E t \in Registrars :
                   /\ rreq[t].name \notin DOMAIN functions
                   /\ DOMAIN functions' = DOMAIN functions \cup {rreq[t].name}
                   /\ functions'[rreq[t].name] = EntryOf(rreq[t])
          /\ \A t \in Registrars :
                (rres[t] = "none" /\ rres'[t] = "Err") =>
                   /\ rreq[t].name \in DOMAIN functions
                   /\ functions' = functions]_vars
    /\ [](\A t \in Registrars :
             /\ rres[t] = "Ok" =>
                   /\ rreq[t].name \notin DOMAIN LoadedFunctions
                   /\ rreq[t].name \in DOMAIN functions
                   /\ functions[rreq[t].name] = EntryOf(rreq[t])
             /\ \A u \in Registrars \ {t} :
                   (rreq[t].name = rreq[u].name /\ rpc[t] = "done" /\ rpc[u] = "done") =>
                      /\ ~(rres[t] = "Ok" /\ rres[u] = "Ok")
                      /\ rreq[t].name \notin DOMAIN LoadedFunctions =>
                            (rres[t] = "Ok" \/ rres[u] = "Ok"))

\* two registrations of one new name with different bodies have returned:
\* one succeeded, and its entry is the one in the registry
C14_Witness ==
    \E t \in Registrars : \E u \in Registrars \ {t} :
        /\ rreq[t].name = rreq[u].name /\ rreq[t] # rreq[u]
        /\ rres[t] = "Ok" /\ rres[u] = "Err"
        /\ functions[rreq[t].name] = EntryOf(rreq[t])

\* C20: no thread holds the registry lock while it runs a nested
\* tokenize/evaluate pass or while it acquires the lock again: the lock is
\* held within one expansion pass, one is_function_defined or one register
\* or save block only; a custom-function evaluation nested to any depth, run
\* concurrently with registrations, always makes progress: every thread
\* returns.
C20_NoRegistryDeadlock ==
    /\ [](lock = Evaluating => pc \in {"pass", "defined"})
    /\ [](\A t \in Registrars :
             lock = t => rpc[t] \in {"check", "insert", "serialize"})
    /\ <>AllDone

\* the evaluating thread holds the lock for a pass of a nested
\* calculate_with_custom call while a registering thread waits for it
C20_Witness ==
    /\ frames # <<>> /\ pc = "pass" /\ lock = Evaluating
    /\ \E t \in Registrars : rpc[t] \in {"lock", "save"}


\* the add_entry call i saves, and nothing has written the history file
\* since it loaded: the call runs alone
SavesAlone(i) ==
    /\ AddSave(i)
    /\ tasks[i].history = UnwrapOrDefault(LoadHistory(hfile))

\* the last MaxEntries entries of a history
LastEntries(history) ==
    IF Len(history) > MaxEntries
    THEN SubSeq(history, Len(history) - MaxEntries + 1, Len(history))
    ELSE history

\* C18: starting from an empty history, with add_entry and clear_history
\* calls run one at a time, the stored history holds at most max_entries
\* entries, in insertion order with the most recently added entry last: an
\* add puts its entry after the stored ones, the oldest dropped when the
\* bound is exceeded; clear_history leaves the history empty.
C18_BoundedHistory ==
    /\ [](Len(Stored) <= MaxEntries)
    /\ [][\A i \in 1..Len(tasks) :
            SavesAlone(i) =>
               Stored' = LastEntries(Stored \o ToJson(<< tasks[i].entry >>))]_vars
    /\ [][ClearHistory => Stored' = <<>>]_vars

\* the entries stored and the entries of the add_entry calls in progress
Recorded ==
    {Stored[i] : i \in 1..Len(Stored)}
       \cup {ToJson(<< tasks[i].entry >>)[1] : i \in 1..Len(tasks)}

\* C19: in every run mode add_entry is called only after the evaluation
\* returned a numeric result, with that expression and that result; an
\* evaluation that returned a failure leaves the history unchanged; every
\* entry of the history is an expression with the value it evaluates to.
C19_FailuresNotRecorded ==
    /\ [][/\ Len(tasks') > Len(tasks) =>
                /\ pc = "done" /\ result.tag = "Ok"
                /\ tasks' = Append(tasks, tasks'[Len(tasks')])
                /\ tasks'[Len(tasks')].entry.expression = request
                /\ tasks'[Len(tasks')].entry.result = result.v
          /\ (pc = "done" /\ result.tag # "Ok" /\ pc' # "done") =>
                UNCHANGED << hfile, tasks >>]_vars
    /\ [](\A e \in Recorded :
             \E r \in {Calculate(e.expression), CalculateWithCustom(e.expression)} :
                r.tag = "Ok" /\ JsonOf(r.v) = e.result)

\* a line has failed in the interactive loop, after results of other lines
\* were stored: the history is as it was
C19_Witness ==
    /\ pc = "next" /\ result.tag = "Err" /\ runmode = "interactive"
    /\ Len(Stored) = 2 /\ tasks = <<>>

\* the index of the nearest LeftParen of an operator stack, 0 without one
NearestLeftParen(stack) ==
    IF \E i \in 1..Len(stack) : stack[i] = LeftParen
    THEN CHOOSE i \in 1..Len(stack) :
            /\ stack[i] = LeftParen
            /\ \A j \in (i + 1)..Len(stack) : stack[j] # LeftParen
    ELSE 0

\* a UnaryMinus is pending above the nearest LeftParen
PendingUnaryMinus(stack) ==
    \E i \in (NearestLeftParen(stack) + 1)..Len(stack) : stack[i] = UnaryMinus

\* the step pushes the binary operator of the Add/Subtract or the
\* Multiply/Divide/Modulo tier it scans
PushesBinary ==
    /\ AtToken({"Add", "Subtract", "Multiply", "Divide", "Modulo"})
    /\ pos' = pos + 1 /\ pc' = "scan"
    /\ ops' # <<>> /\ Last(ops') = tokens[pos]

\* C21: at the moment a binary operator of the Add/Subtract or of the
\* Multiply/Divide/Modulo tier is pushed onto the operator stack, the entry
\* directly beneath it is not UnaryMinus: every pending UnaryMinus above the
\* nearest LeftParen has been popped and applied.
C21_UnaryResolvedBeforeBinary ==
    [][PushesBinary =>
          /\ Front(ops') = <<>> \/ Last(Front(ops')) # UnaryMinus
          /\ ~PendingUnaryMinus(Front(ops'))]_vars

\* the token sequence read as  -...-( e ) : the number of minus signs in
\* front of the group and the tokens of e
NegatedGroup ==
    LET k == CountUM(tokens, 1) IN
    [ok    |-> /\ k >= 1 /\ Len(tokens) >= k + 3
               /\ tokens[k + 1] = LeftParen /\ Last(tokens) = RightParen,
     n     |-> k,
     inner |-> SubSeq(tokens, k + 2, Len(tokens) - 1)]

\* the step scans a RightParen and the scan goes on
ClosesGroup ==
    AtToken({"RightParen"}) /\ pos' = pos + 1 /\ pc' = "scan"

\* C22: a RightParen step reduces the operators down to the matching
\* LeftParen, pops it, applies the UnaryMinus directly beneath it, if there
\* is one, and only that one, and leaves the operators below on the stack as
\* they were; -...-(e) is the value of e negated once per minus sign, every
\* UnaryMinus token being applied exactly once.
C22_GroupNegatedOnce ==
    /\ [][ClosesGroup =>
            LET m     == NearestLeftParen(ops)
                minus == m > 1 /\ ops[m - 1] = UnaryMinus
                made  == SubSeq(applied', Len(applied) + 1, Len(applied'))
            IN  /\ m >= 1
                /\ ops' = SubSeq(ops, 1, IF minus THEN m - 2 ELSE m - 1)
                /\ Len(made) = (Len(ops) - m) + (IF minus THEN 1 ELSE 0)
                /\ \A i \in 1..(Len(ops) - m) : made[i].op = ops[Len(ops) + 1 - i].t
                /\ minus =>
                     /\ Last(made).op = "UnaryMinus"
                     /\ Last(values') = FNeg(Last(made).a)]_vars
    /\ [](\A g \in { NegatedGroup } :
            (Done /\ mode = "calculate" /\ g.ok) =>
               \A e \in { Evaluate(g.inner) } :
                  e.tag = "Ok" =>
                     /\ result = Ok(NegN(e.v, g.n))
                     /\ Len(UnaryApplied) = Len(UnaryTokens))

\* C22 witness: in 2*-(1+1) the RightParen has been scanned: the group is 2,
\* negated to -2, and the Multiply beneath the UnaryMinus is still on the
\* stack
C22_Witness ==
    /\ pc = "scan"
    /\ Line(<< Lit(2), <<"*">>, Minus(Paren(Lit(1) \o << "+" >> \o Lit(1))) >>)
    /\ pos = 9
    /\ ops = << Multiply >>
    /\ values = << Int2F(2), Int2F(-2) >>

\* evaluate has ended on a token sequence in which some RightParen has no
\* open LeftParen or some LeftParen is never closed
EndedUnbalanced ==
    Done /\ tokens # <<>> /\ ~Balanced(tokens, LeftParen, RightParen)

\* C23: a token sequence in which some RightParen has no open LeftParen, or
\* some LeftParen is never closed, never evaluates to a value: evaluate ends
\* in a failure, with no number returned and the unclosed LeftParen never
\* dropped from the operator stack by anything but the failing final loop.
C23_UnbalancedNeverValue ==
    /\ [](EndedUnbalanced => result.tag \in {"Err", "Panic", "Overflow"})
    /\ [](EndedUnbalanced => Evaluate(tokens).tag # "Ok")
    /\ [][(pc = "scan" /\ Len(SelectSeq(ops', LAMBDA t : t = LeftParen))
                            < Len(SelectSeq(ops, LAMBDA t : t = LeftParen)))
             => \/ AtToken({"RightParen"})
                \/ (pos > Len(tokens) /\ pc' = "done")
                \/ frames' # frames]_vars

\* C23 witness: 2*(1 has been evaluated: Multiply and LeftParen are left for
\* the final loop, which fails on the LeftParen
C23_Witness ==
    /\ EndedUnbalanced
    /\ Line(<< Lit(2), <<"*">>, <<"(">>, Lit(1) >>)
    /\ result = Err("Unexpected operator")
    /\ values = <<>>

\* the character at i of the line is a numeric literal of its own
LiteralAt(line, i) ==
    /\ line[i] \in Digits
    /\ i > 1 => line[i - 1] \notin (Digits \cup {"."} \cup IdentChars)
    /\ i < Len(line) => line[i + 1] \notin (Digits \cup {"."})

\* the line with the literal at i in parentheses
ParenAt(line, i) ==
    SubSeq(line, 1, i - 1) \o Paren(<< line[i] >>) \o SubSeq(line, i + 1, Len(line))

\* C24: for every expression that evaluates successfully, replacing a numeric
\* literal operand x by the group (x) yields the same result.
C24_ParenLiteralNeutral ==
    (/\ Done /\ mode = "calculate" /\ result.tag = "Ok"
     /\ \A i \in 1..Len(input) : input[i] \notin IdentChars \ Digits)
        => \A i \in 1..Len(input) :
              LiteralAt(input, i) => SameOutcome(Calculate(ParenAt(input, i)), result)

\* two add_entry tasks spawned by the interactive loop overlap: both are
\* between their load and their save
Overlap(i, j) ==
    /\ i # j
    /\ ~tasks[i].awaited /\ tasks[i].stage = "save"
    /\ ~tasks[j].awaited /\ tasks[j].stage = "save"

\* the history the save of task i stores
WillStore(i) == SaveHistory(PushBounded(tasks[i].history, tasks[i].entry)).content

\* the entries of a sequence
Entries(history) == {history[k] : k \in 1..Len(history)}

\* C25: when two add_entry tasks spawned by the interactive loop overlap on
\* the history file, the history stored after both have finished, which is
\* what the one that saves last stores, holds the entries of both and,
\* within the max_entries bound, the entries stored before.
C25_NoLostUpdate ==
    \A i, j \in 1..Len(tasks) :
        (Overlap(i, j) /\ LoadHistory(hfile).ok) =>
            /\ Entries(ToJson(<< tasks[i].entry, tasks[j].entry >>))
                  \subseteq Entries(WillStore(j))
            /\ Entries(LastEntries(Stored \o ToJson(<< tasks[i].entry, tasks[j].entry >>)))
                  \subseteq Entries(WillStore(j))

\* the request is one call name(n1,...,nk) with numeric literal arguments
LiteralCall ==
    /\ request # <<>>
    /\ \E c \in { MatchCall(request, 1) } :
          /\ c.ok /\ c.next = Len(request) + 1
          /\ \A i \in 1..Len(c.args_str) : c.args_str[i] \in Digits \cup {".", ","}

\* two outcomes are the same result, or both are failures
Agree(r, s) ==
    \/ r.tag = "Ok" /\ s.tag = "Ok" /\ NumEq(r.v, s.v)
    \/ r.tag # "Ok" /\ s.tag # "Ok"

\* C26: for every call name(n1,...,nk) with numeric literal arguments and
\* every registry content, also one with a function registered under the
\* name of a built-in, calculate and calculate_with_custom return the same
\* result or both fail.
C26_PathsAgree ==
    (Done /\ LiteralCall) =>
        /\ mode = "calculate" => Agree(result, CalculateWithCustom(request))
        /\ mode = "custom" => Agree(result, Calculate(request))

=============================================================================
